---- MODULE Spec2Model ----
(***************************************************************************)
(* SLO analytics over the transaction_metrics table.                       *)
(*                                                                         *)
(* The table is a set of hourly rows; the analytics classes                *)
(* (DegradationDetector, MetricsAggregator) and the tool dispatcher        *)
(* (FunctionExecutor) read it through SQL aggregates and post-process the  *)
(* data frame in Python.  One action per public method: it evaluates the   *)
(* method's SQL on the current table and leaves the value the method       *)
(* returns in `ret`, and the arguments it ran with in `call`.              *)
(*                                                                         *)
(* Float64 values are exact rationals <<n, d>> (d > 0, lowest terms); a    *)
(* SQL NULL, which pandas reads as NaN, is NULL.  Timestamps are whole     *)
(* days, the unit of timedelta(days=...).                                  *)
(***************************************************************************)
EXTENDS Integers, Sequences, FiniteSets, TLC

VARIABLES store, call, ret

vars == <<store, call, ret>>

----------------------------------------------------------------------------
(* Bounds of the model *)

MaxRecords == 4
MaxTime == 2
MaxWindow == 1

Services == {"A", "B"}
Times == 0..MaxTime

----------------------------------------------------------------------------
(* Float64 arithmetic, exact *)

NULL == <<>>

RECURSIVE GCD(_, _)
GCD(a, b) == IF b = 0 THEN a ELSE GCD(b, a % b)

Abs(n) == IF n < 0 THEN -n ELSE n

Rat(n, d) ==
    LET g == GCD(Abs(n), Abs(d))
        s == IF d < 0 THEN -1 ELSE 1
    IN  <<(s * n) \div g, (s * d) \div g>>

R(n) == <<n, 1>>

RSub(x, y) == Rat(x[1] * y[2] - y[1] * x[2], x[2] * y[2])
RAdd(x, y) == Rat(x[1] * y[2] + y[1] * x[2], x[2] * y[2])
RDiv(x, y) == Rat(x[1] * y[2], x[2] * y[1])
RMul(x, y) == Rat(x[1] * y[1], x[2] * y[2])

(* Comparisons; one with a NaN operand is False, as in Python and pandas *)
RGt(x, y) == x # NULL /\ y # NULL /\ x[1] * y[2] > y[1] * x[2]
RLe(x, y) == x # NULL /\ y # NULL /\ x[1] * y[2] <= y[1] * x[2]
RGe(x, y) == RLe(y, x)

notna(x) == x # NULL

----------------------------------------------------------------------------
(* Program constants *)

DEGRADATION_WINDOW_DAYS == 7
DEGRADATION_THRESHOLD_PERCENT == 20

----------------------------------------------------------------------------
(* The transaction_metrics table *)

(* A row as flatten_transaction_series fills it when the message gives no
   value for a column: 0 for numbers, '' for strings. *)
DefaultRow ==
    [ error_rate |-> R(0),
      avg_response_time |-> R(0),
      percentile_95 |-> R(0),
      percentile_99 |-> R(0),
      short_target_slo |-> R(0),
      eb_actual_consumed_percent |-> R(0),
      eb_left_count |-> R(0),
      eb_health |-> "",
      response_health |-> "",
      timeliness_health |-> "",
      aspirational_eb_health |-> "",
      aspirational_response_health |-> "",
      response_error_rate |-> R(0),
      response_severity |-> "",
      eb_severity |-> "",
      timeliness_severity |-> "",
      aspirational_response_severity |-> "",
      aspirational_eb_severity |-> "",
      response_slo |-> R(0) ]

Col(given, c) == IF c \in DOMAIN given THEN given[c] ELSE DefaultRow[c]

MakeRow(name, ts, given) ==
    [ transaction_name |-> name,
      timestamp |-> ts,
      error_rate |-> Col(given, "error_rate"),
      avg_response_time |-> Col(given, "avg_response_time"),
      percentile_95 |-> Col(given, "percentile_95"),
      percentile_99 |-> Col(given, "percentile_99"),
      short_target_slo |-> Col(given, "short_target_slo"),
      eb_actual_consumed_percent |-> Col(given, "eb_actual_consumed_percent"),
      eb_left_count |-> Col(given, "eb_left_count"),
      eb_health |-> Col(given, "eb_health"),
      response_health |-> Col(given, "response_health"),
      timeliness_health |-> Col(given, "timeliness_health"),
      aspirational_eb_health |-> Col(given, "aspirational_eb_health"),
      aspirational_response_health |-> Col(given, "aspirational_response_health"),
      response_error_rate |-> Col(given, "response_error_rate"),
      response_severity |-> Col(given, "response_severity"),
      eb_severity |-> Col(given, "eb_severity"),
      timeliness_severity |-> Col(given, "timeliness_severity"),
      aspirational_response_severity |-> Col(given, "aspirational_response_severity"),
      aspirational_eb_severity |-> Col(given, "aspirational_eb_severity"),
      response_slo |-> Col(given, "response_slo") ]

(* Metric values of the rows ingested in the degradation scenario. *)
DegradationSamples ==
    { [error_rate |-> R(0), avg_response_time |-> R(4),
       percentile_95 |-> NULL, percentile_99 |-> R(1), short_target_slo |-> R(1)],
      [error_rate |-> R(2), avg_response_time |-> R(1),
       percentile_95 |-> R(4), percentile_99 |-> R(2), short_target_slo |-> R(0)] }

(* SQL aggregates over a set of rows; NULLs are skipped, and an aggregate
   over no value is NULL. *)
RECURSIVE SumCol(_, _)
SumCol(S, col) ==
    IF S = {} THEN R(0)
    ELSE LET r == CHOOSE x \in S : TRUE
         IN  RAdd(r[col], SumCol(S \ {r}, col))

AVG(S, col) ==
    LET N == {r \in S : r[col] # NULL}
    IN  IF N = {} THEN NULL ELSE RDiv(SumCol(N, col), R(Cardinality(N)))

MAXCol(S, col) ==
    LET N == {r \in S : r[col] # NULL}
    IN  IF N = {} THEN NULL
        ELSE (CHOOSE r \in N : \A q \in N : RGe(r[col], q[col]))[col]

NULLIF(x, y) == IF x = y THEN NULL ELSE x

GroupNames(S) == {r.transaction_name : r \in S}
Group(S, name) == {r \in S : r.transaction_name = name}

(* A missing time, the value `not time_range['max_time']` holds of. *)
NaT == -1

(* 1970-01-01 00:00:00, the default value of the DateTime64 column. *)
EPOCH == 0

(* MIN and MAX of a column that admits no NULL, over no rows: the column's
   default value, or a missing value where the server is set to return NULL
   for an aggregate over nothing. *)
EmptyTableTimes == {NaT, EPOCH}

(* The results get_time_range can give on table S. *)
get_time_range(S) ==
    IF S = {} THEN {[min_time |-> t, max_time |-> t] : t \in EmptyTableTimes}
    ELSE {[min_time |-> CHOOSE t \in {r.timestamp : r \in S} :
                            \A r \in S : t <= r.timestamp,
           max_time |-> CHOOSE t \in {r.timestamp : r \in S} :
                            \A r \in S : t >= r.timestamp]}

RECURSIVE Perms(_)
Perms(S) ==
    IF S = {} THEN {<<>>}
    ELSE UNION {{<<x>> \o p : p \in Perms(S \ {x})} : x \in S}

----------------------------------------------------------------------------
(* DegradationDetector *)

(* calculate_percent_change without the 100.0 branch of a zero baseline. *)
calculate_percent_change_ZeroOnly(baseline, current) ==
    IF baseline = NULL THEN NULL
    ELSE IF baseline = R(0) THEN R(0)
    ELSE IF current = NULL THEN NULL
    ELSE RMul(RDiv(RSub(current, baseline), baseline), R(100))

(* calculate_percent_change giving NaN for a zero baseline. *)
calculate_percent_change_NullOnZero(baseline, current) ==
    IF baseline = NULL \/ baseline = R(0) \/ current = NULL THEN NULL
    ELSE RMul(RDiv(RSub(current, baseline), baseline), R(100))

calculate_percent_change(baseline, current) ==
    IF baseline = NULL THEN NULL
    ELSE IF baseline = R(0)
         THEN (IF RGt(current, R(0)) THEN R(100) ELSE R(0))
    ELSE IF current = NULL THEN NULL
    ELSE RMul(RDiv(RSub(current, baseline), baseline), R(100))

(* Python's max(a, b, c, d): the first argument, replaced by each later one
   that compares greater. *)
RECURSIVE PyMaxFrom(_, _, _)
PyMaxFrom(m, xs, i) ==
    IF i > Len(xs) THEN m
    ELSE PyMaxFrom(IF RGt(xs[i], m) THEN xs[i] ELSE m, xs, i + 1)

PyMax(xs) == PyMaxFrom(xs[1], xs, 2)

(* classify_severity with inclusive bounds: 100 is critical, 50 is warning. *)
classify_severity_Inclusive(error_rate_change, response_time_change, p95_change, p99_change) ==
    LET max_change == PyMax(<<error_rate_change, response_time_change,
                              p95_change, p99_change>>)
    IN  IF RGe(max_change, R(100)) THEN "critical"
        ELSE IF RGe(max_change, R(50)) THEN "warning"
        ELSE "minor"

classify_severity(error_rate_change, response_time_change, p95_change, p99_change) ==
    LET max_change == PyMax(<<error_rate_change, response_time_change,
                              p95_change, p99_change>>)
    IN  IF RGt(max_change, R(100)) THEN "critical"
        ELSE IF RGt(max_change, R(50)) THEN "warning"
        ELSE "minor"

(* The per-service aggregate both window queries select. *)
Aggregate(G) ==
    [ avg_error_rate |-> AVG(G, "error_rate"),
      avg_response_time |-> AVG(G, "avg_response_time"),
      avg_response_time_p95 |-> AVG(G, "percentile_95"),
      avg_response_time_p99 |-> AVG(G, "percentile_99") ]

WindowAggregate(S) == [name \in GroupNames(S) |-> Aggregate(Group(S, name))]

RecentRows(S, window_start, current_time) ==
    {r \in S : r.timestamp >= window_start /\ r.timestamp <= current_time}

(* BaselineRows with <= for <: the row at baseline_end is in both windows. *)
BaselineRows_Closed(S, baseline_start, baseline_end) ==
    {r \in S : r.timestamp >= baseline_start /\ r.timestamp <= baseline_end}

BaselineRows(S, baseline_start, baseline_end) ==
    {r \in S : r.timestamp >= baseline_start /\ r.timestamp < baseline_end}

(* recent_df.merge(baseline_df, on='service_name', how='inner') *)
MergeInner(recent_df, baseline_df) == DOMAIN recent_df \cap DOMAIN baseline_df

(* IsDegrading with >= for >: a change equal to the threshold is flagged. *)
IsDegrading_AtLeast(er_change, rt_change, p95_change, p99_change, threshold) ==
    \/ RGe(er_change, threshold)
    \/ RGe(rt_change, threshold)
    \/ RGe(p95_change, threshold)
    \/ RGe(p99_change, threshold)

IsDegrading(er_change, rt_change, p95_change, p99_change, threshold) ==
    \/ RGt(er_change, threshold)
    \/ RGt(rt_change, threshold)
    \/ RGt(p95_change, threshold)
    \/ RGt(p99_change, threshold)

PercentileChange(baseline, recent) ==
    IF notna(recent) /\ notna(baseline)
    THEN calculate_percent_change(baseline, recent)
    ELSE R(0)

CompareRow(name, recent, baseline) ==
    LET error_rate_change ==
            calculate_percent_change(baseline.avg_error_rate, recent.avg_error_rate)
        response_time_change ==
            calculate_percent_change(baseline.avg_response_time, recent.avg_response_time)
        p95_change ==
            PercentileChange(baseline.avg_response_time_p95, recent.avg_response_time_p95)
        p99_change ==
            PercentileChange(baseline.avg_response_time_p99, recent.avg_response_time_p99)
    IN  [ service_name |-> name,
          error_rate_recent |-> recent.avg_error_rate,
          error_rate_baseline |-> baseline.avg_error_rate,
          error_rate_change_percent |-> error_rate_change,
          response_time_change_percent |-> response_time_change,
          response_time_p95_change_percent |-> p95_change,
          response_time_p99_change_percent |-> p99_change,
          severity |-> classify_severity(error_rate_change, response_time_change,
                                         p95_change, p99_change) ]

SortKey(x) ==
    PyMax(<<x.error_rate_change_percent, x.response_time_change_percent,
            x.response_time_p95_change_percent, x.response_time_p99_change_percent>>)

(* list.sort(key=..., reverse=True): stable, so an entry goes after every
   entry already placed whose key is not smaller. *)
InsertByKey(sorted, x) ==
    LET before == {i \in 1..Len(sorted) : ~RGt(SortKey(x), SortKey(sorted[i]))}
        k == Cardinality({i \in before : \A j \in 1..i : j \in before})
    IN  SubSeq(sorted, 1, k) \o <<x>> \o SubSeq(sorted, k + 1, Len(sorted))

RECURSIVE SortDescFrom(_, _, _)
SortDescFrom(sorted, xs, i) ==
    IF i > Len(xs) THEN sorted
    ELSE SortDescFrom(InsertByKey(sorted, xs[i]), xs, i + 1)

(* SortDesc that leaves the list in frame order. *)
SortDesc_Unsorted(xs) == xs

SortDesc(xs) == SortDescFrom(<<>>, xs, 1)

(* The loop over comparison.iterrows(): one compared row per service of the
   merged frame, in frame order; the degrading ones are appended. *)
RECURSIVE CompareAll(_, _, _, _)
CompareAll(order, recent_df, baseline_df, i) ==
    IF i > Len(order) THEN <<>>
    ELSE <<CompareRow(order[i], recent_df[order[i]], baseline_df[order[i]])>>
         \o CompareAll(order, recent_df, baseline_df, i + 1)

RECURSIVE SelectDegrading(_, _, _)
SelectDegrading(compared, threshold_percent, i) ==
    IF i > Len(compared) THEN <<>>
    ELSE (IF IsDegrading(compared[i].error_rate_change_percent,
                         compared[i].response_time_change_percent,
                         compared[i].response_time_p95_change_percent,
                         compared[i].response_time_p99_change_percent,
                         threshold_percent)
          THEN <<compared[i]>> ELSE <<>>)
         \o SelectDegrading(compared, threshold_percent, i + 1)

(* Windows whose baseline window runs up to current_time, over the recent
   window. *)
Windows_Overlapping(current_time, time_window_days) ==
    LET window_start == current_time - time_window_days
        baseline_end == current_time
        baseline_start == window_start - time_window_days
    IN  [ current_time |-> current_time, window_start |-> window_start,
          baseline_end |-> baseline_end, baseline_start |-> baseline_start ]

(* The windows of one call: [current - D, current] and
   [current - 2D, current - D). *)
Windows(current_time, time_window_days) ==
    LET window_start == current_time - time_window_days
        baseline_end == window_start
        baseline_start == baseline_end - time_window_days
    IN  [ current_time |-> current_time, window_start |-> window_start,
          baseline_end |-> baseline_end, baseline_start |-> baseline_start ]

RowKeys(S) == {<<r.transaction_name, r.timestamp>> : r \in S}

(* The first half of detect_degrading_services on table S: the two window
   queries and the merged, compared rows, the merged frame listing the
   services in the order `order`.  With no max_time the method returns
   before it builds a query. *)
CompareWindows(S, time_range, time_window_days, order) ==
    LET w == Windows(time_range.max_time, time_window_days)
        recent_rows == RecentRows(S, w.window_start, w.current_time)
        baseline_rows == BaselineRows(S, w.baseline_start, w.baseline_end)
        recent_df == WindowAggregate(recent_rows)
        baseline_df == WindowAggregate(baseline_rows)
    IN  IF time_range.max_time = NaT
        THEN [queried |-> FALSE, windows |-> <<>>, recent_rows |-> {},
              baseline_rows |-> {}, compared |-> <<>>]
        ELSE [queried |-> TRUE, windows |-> w, recent_rows |-> RowKeys(recent_rows),
              baseline_rows |-> RowKeys(baseline_rows),
              compared |-> CompareAll(order, recent_df, baseline_df, 1)]

(* The second half: the degrading rows, sorted. *)
FlagAndSort(compared, threshold_percent) ==
    SortDesc(SelectDegrading(compared, R(threshold_percent), 1))

(* The service names of the merged frame, in any row order the two GROUP BY
   queries may give. *)
ComparisonOrders(S, time_range, time_window_days) ==
    LET w == Windows(time_range.max_time, time_window_days)
    IN  IF time_range.max_time = NaT THEN {<<>>}
        ELSE Perms(MergeInner(
                 WindowAggregate(RecentRows(S, w.window_start, w.current_time)),
                 WindowAggregate(BaselineRows(S, w.baseline_start, w.baseline_end))))

(* The volume query's WHERE clause without its two timestamp conditions. *)
VolumeRows_AnyTime(S, service_name, window_start, current_time) ==
    {r \in S : r.transaction_name = service_name}

(* WHERE transaction_name = service_name AND timestamp >= window_start
   AND timestamp <= current_time *)
VolumeRows(S, service_name, window_start, current_time) ==
    {r \in S : /\ r.transaction_name = service_name
               /\ r.timestamp >= window_start
               /\ r.timestamp <= current_time}

(* ORDER BY timestamp ASC *)
RECURSIVE OrderByTimestamp(_)
OrderByTimestamp(rows) ==
    IF rows = {} THEN <<>>
    ELSE LET first == CHOOSE r \in rows : \A q \in rows : r.timestamp <= q.timestamp
         IN  <<first>> \o OrderByTimestamp(rows \ {first})

(* One entry of time_series: the timestamp as a string, a NaN value as 0.0. *)
TimeSeriesEntry(row) ==
    [ timestamp |-> ToString(row.timestamp),
      error_rate |-> IF notna(row.error_rate) THEN row.error_rate ELSE R(0),
      response_time |-> IF notna(row.avg_response_time)
                        THEN row.avg_response_time ELSE R(0) ]

(* df['col'].mean(), a NaN mean as 0.0 *)
MeanOrZero(S, col) == IF notna(AVG(S, col)) THEN AVG(S, col) ELSE R(0)

(* get_volume_trends on table S, get_time_range having given time_range:
   the returned value, and whether the windowed query was built. *)
get_volume_trends(S, time_range, service_name, time_window_days) ==
    LET current_time == time_range.max_time
        window_start == current_time - time_window_days
        rows == VolumeRows(S, service_name, window_start, current_time)
        df == OrderByTimestamp(rows)
    IN  IF time_range.max_time = NaT
        THEN [queried |-> FALSE, value |-> [error |-> <<"No data available">>]]
        ELSE IF df = <<>>
        THEN [queried |-> TRUE,
              value |-> [error |-> <<"No data found for service", service_name>>]]
        ELSE [queried |-> TRUE,
              value |-> [ service_name |-> service_name,
                          time_window_days |-> time_window_days,
                          summary |-> [ avg_error_rate |-> MeanOrZero(rows, "error_rate"),
                                        avg_response_time |->
                                            MeanOrZero(rows, "avg_response_time") ],
                          time_series |-> [i \in 1..Len(df) |-> TimeSeriesEntry(df[i])] ]]

----------------------------------------------------------------------------
(* MetricsAggregator *)

SqlDiv(x, y) == IF x = NULL \/ y = NULL THEN NULL ELSE RDiv(x, y)
SqlMul(x, y) == IF x = NULL \/ y = NULL THEN NULL ELSE RMul(x, y)

(* (AVG(error_rate) / NULLIF(MAX(short_target_slo), 0)) * 100 *)
BurnRate(G) ==
    SqlMul(SqlDiv(AVG(G, "error_rate"), NULLIF(MAXCol(G, "short_target_slo"), R(0))),
           R(100))

(* ORDER BY avg_burn_rate DESC over groups whose rate is not NULL. *)
NonIncreasingBurnRate(S, seq) ==
    \A i \in 1..(Len(seq) - 1) :
        ~RGt(BurnRate(Group(S, seq[i + 1])), BurnRate(Group(S, seq[i])))

Head_n(seq, n) == SubSeq(seq, 1, IF n < Len(seq) THEN n ELSE Len(seq))

(* BurnRateFrames without the HAVING clause: every group is a row. *)
BurnRateFrames_NoHaving(S, limit) ==
    {Head_n(o, limit) : o \in {p \in Perms(GroupNames(S)) : NonIncreasingBurnRate(S, p)}}

(* The frames get_services_by_burn_rate may read: the groups HAVING
   avg_burn_rate > 0, ORDER BY avg_burn_rate DESC (ties in any order),
   LIMIT limit. *)
BurnRateFrames(S, limit) ==
    LET kept == {name \in GroupNames(S) : RGt(BurnRate(Group(S, name)), R(0))}
    IN  {Head_n(o, limit) : o \in {p \in Perms(kept) : NonIncreasingBurnRate(S, p)}}

get_services_by_burn_rate(S, df) ==
    [i \in 1..Len(df) |->
        LET avg_burn_rate == BurnRate(Group(S, df[i]))
        IN  [ service_name |-> df[i],
              avg_burn_rate |-> IF notna(avg_burn_rate) THEN avg_burn_rate ELSE R(0) ]]

(* ORDER BY burn rate DESC: non-increasing, NULLs last, ties in any order. *)
OrderedDesc(S, seq) ==
    \A i \in 1..(Len(seq) - 1) :
        LET this == BurnRate(Group(S, seq[i]))
            next == BurnRate(Group(S, seq[i + 1]))
        IN  next = NULL \/ (this # NULL /\ RGe(this, next))

(* The group names of S as the rows of a frame ORDER BY burn rate DESC. *)
BurnOrderedFrames(S) ==
    {p \in Perms(GroupNames(S)) : OrderedDesc(S, p)}

(* int(x): truncation toward zero *)
PyInt(x) == IF x[1] < 0 THEN -((-x[1]) \div x[2]) ELSE x[1] \div x[2]

(* BudgetExhaustedRow with > for >=: exactly 100 percent is not exhausted. *)
BudgetExhaustedRow_Above(r) ==
    RGt(r.eb_actual_consumed_percent, R(100)) \/ RGt(R(0), r.eb_left_count)

(* WHERE eb_actual_consumed_percent >= 100 OR eb_left_count < 0 *)
BudgetExhaustedRow(r) ==
    RGe(r.eb_actual_consumed_percent, R(100)) \/ RGt(R(0), r.eb_left_count)

get_budget_exhausted_services(S, df) ==
    LET W == {r \in S : BudgetExhaustedRow(r)}
    IN  [i \in 1..Len(df) |->
            LET G == Group(W, df[i])
                eb_left == AVG(G, "eb_left_count")
                burn_rate == BurnRate(G)
                consumed == AVG(G, "eb_actual_consumed_percent")
            IN  [ service_name |-> df[i],
                  eb_actual_consumed_percent |->
                      IF notna(consumed) THEN consumed ELSE R(0),
                  eb_left_count |-> IF notna(eb_left) THEN PyInt(eb_left) ELSE 0,
                  burn_rate |-> IF notna(burn_rate) THEN burn_rate ELSE R(0) ]]

BudgetExhaustedFrames(S) == BurnOrderedFrames({r \in S : BudgetExhaustedRow(r)})

(* HealthyCount that is positive only when every row is HEALTHY. *)
HealthyCount_AllRows(G, col) ==
    IF \A r \in G : r[col] = "HEALTHY" THEN Cardinality(G) ELSE 0

(* SUM(CASE WHEN col = 'HEALTHY' THEN 1 ELSE 0 END) *)
HealthyCount(G, col) == Cardinality({r \in G : r[col] = "HEALTHY"})

HealthDimensions ==
    <<"eb_health", "response_health", "timeliness_health",
      "aspirational_eb_health", "aspirational_response_health">>

RECURSIVE CountHealthyDims(_, _)
CountHealthyDims(G, i) ==
    IF i > Len(HealthDimensions) THEN 0
    ELSE (IF HealthyCount(G, HealthDimensions[i]) > 0 THEN 1 ELSE 0)
         + CountHealthyDims(G, i + 1)

HealthScore(healthy_dims) == RMul(RDiv(R(healthy_dims), R(5)), R(100))

get_composite_health_score(S, df) ==
    [i \in 1..Len(df) |->
        LET G == Group(S, df[i])
            healthy_dims == CountHealthyDims(G, 1)
            avg_burn_rate == BurnRate(G)
        IN  [ service_name |-> df[i],
              healthy_dimensions |-> healthy_dims,
              health_score |-> HealthScore(healthy_dims),
              avg_burn_rate |-> IF notna(avg_burn_rate) THEN avg_burn_rate ELSE R(0) ]]

(* AspirationalGapRow with AND for OR: both dimensions must show the gap. *)
AspirationalGapRow_Both(r) ==
    /\ r.eb_health = "HEALTHY" /\ r.aspirational_eb_health = "UNHEALTHY"
    /\ r.response_health = "HEALTHY" /\ r.aspirational_response_health = "UNHEALTHY"

(* WHERE (eb_health = 'HEALTHY' AND aspirational_eb_health = 'UNHEALTHY')
      OR (response_health = 'HEALTHY' AND aspirational_response_health = 'UNHEALTHY') *)
AspirationalGapRow(r) ==
    \/ r.eb_health = "HEALTHY" /\ r.aspirational_eb_health = "UNHEALTHY"
    \/ r.response_health = "HEALTHY" /\ r.aspirational_response_health = "UNHEALTHY"

(* The frames get_aspirational_slo_gap may read: one row per service of the
   filtered rows, in any order (the query has no ORDER BY). *)
AspirationalGapFrames(S) == Perms(GroupNames({r \in S : AspirationalGapRow(r)}))

(* The result rows, with the fields that do not depend on which row any()
   picks. *)
get_aspirational_slo_gap(S, df) ==
    LET W == {r \in S : AspirationalGapRow(r)}
    IN  [i \in 1..Len(df) |->
            LET G == Group(W, df[i])
                std_eb_consumed == AVG(G, "eb_actual_consumed_percent")
                avg_burn_rate == BurnRate(G)
            IN  [ service_name |-> df[i],
                  std_eb_consumed |->
                      IF notna(std_eb_consumed) THEN std_eb_consumed ELSE R(0),
                  avg_burn_rate |->
                      IF notna(avg_burn_rate) THEN avg_burn_rate ELSE R(0) ]]

(* IssueType with >= for > in the first branch: a tie is a latency issue. *)
IssueType_TieIsLatency(avg_breach_rate, avg_error_rate) ==
    IF RGe(avg_breach_rate, avg_error_rate) THEN "LATENCY_ISSUE"
    ELSE IF RGt(avg_error_rate, avg_breach_rate) THEN "RELIABILITY_ISSUE"
    ELSE "BALANCED"

(* CASE WHEN AVG(response_error_rate) > AVG(error_rate) THEN 'LATENCY_ISSUE'
        WHEN AVG(error_rate) > AVG(response_error_rate) THEN 'RELIABILITY_ISSUE'
        ELSE 'BALANCED' END *)
IssueType(avg_breach_rate, avg_error_rate) ==
    IF RGt(avg_breach_rate, avg_error_rate) THEN "LATENCY_ISSUE"
    ELSE IF RGt(avg_error_rate, avg_breach_rate) THEN "RELIABILITY_ISSUE"
    ELSE "BALANCED"

(* where_clause: the filter is built only for a truthy service_name; None
   and the empty string leave the query over every service. *)
BreachScope(S, service_name) ==
    IF service_name = {} \/ service_name = {""} THEN S
    ELSE {r \in S : \E n \in service_name : r.transaction_name = n}

(* ORDER BY avg_breach_rate DESC, ties in any order *)
BreachFrames(S, service_name) ==
    LET W == BreachScope(S, service_name)
    IN  {p \in Perms(GroupNames(W)) :
            \A i \in 1..(Len(p) - 1) :
                RGe(AVG(Group(W, p[i]), "response_error_rate"),
                    AVG(Group(W, p[i + 1]), "response_error_rate"))}

get_breach_vs_error_analysis(S, service_name, df) ==
    LET W == BreachScope(S, service_name)
    IN  [i \in 1..Len(df) |->
            LET G == Group(W, df[i])
                avg_breach_rate == AVG(G, "response_error_rate")
                avg_error_rate == AVG(G, "error_rate")
            IN  [ service_name |-> df[i],
                  avg_breach_rate |->
                      IF notna(avg_breach_rate) THEN avg_breach_rate ELSE R(0),
                  avg_error_rate |->
                      IF notna(avg_error_rate) THEN avg_error_rate ELSE R(0),
                  issue_type |-> IssueType(avg_breach_rate, avg_error_rate) ]]

COALESCE(x, y) == IF x # NULL THEN x ELSE y

(* SlowestRank without the P99 basis: every service ranks by its average. *)
SlowestRank_AverageOnly(G) == AVG(G, "avg_response_time")

(* COALESCE(avg_p99, avg_response_time) *)
SlowestRank(G) == COALESCE(AVG(G, "percentile_99"), AVG(G, "avg_response_time"))

(* ORDER BY COALESCE(avg_p99, avg_response_time) DESC LIMIT limit, ties in
   any order *)
SlowestFrames(S, limit) ==
    {Head_n(p, limit) : p \in
        {q \in Perms(GroupNames(S)) :
            \A i \in 1..(Len(q) - 1) :
                RGe(SlowestRank(Group(S, q[i])), SlowestRank(Group(S, q[i + 1])))}}

(* The result rows; None is NULL. *)
get_slowest_services(S, df) ==
    [i \in 1..Len(df) |->
        LET G == Group(S, df[i])
            avg_rt == AVG(G, "avg_response_time")
            avg_p99 == AVG(G, "percentile_99")
            avg_p95 == AVG(G, "percentile_95")
        IN  [ service_name |-> df[i],
              avg_response_time |-> IF notna(avg_rt) THEN avg_rt ELSE R(0),
              avg_response_time_p95 |-> IF notna(avg_p95) THEN avg_p95 ELSE NULL,
              avg_response_time_p99 |-> IF notna(avg_p99) THEN avg_p99 ELSE NULL ]]

RED == "#FD346E"
GREEN == "#07AE86"

(* SeverityCount that is positive only when every row has the colour. *)
SeverityCount_AllRows(G, col, colour) ==
    IF \A r \in G : r[col] = colour THEN Cardinality(G) ELSE 0

(* SUM(CASE WHEN col = colour THEN 1 ELSE 0 END) *)
SeverityCount(G, col, colour) == Cardinality({r \in G : r[col] = colour})

SeverityDimensions ==
    <<"response_severity", "eb_severity", "timeliness_severity",
      "aspirational_response_severity", "aspirational_eb_severity">>

(* (1 if row[...count] > 0 else 0) + ... over the five dimensions *)
RECURSIVE CountSeverityDims(_, _, _)
CountSeverityDims(G, colour, i) ==
    IF i > Len(SeverityDimensions) THEN 0
    ELSE (IF SeverityCount(G, SeverityDimensions[i], colour) > 0 THEN 1 ELSE 0)
         + CountSeverityDims(G, colour, i + 1)

(* The frame is BurnOrderedFrames(S): ORDER BY avg_burn_rate DESC. *)
get_severity_heatmap(S, df) ==
    [i \in 1..Len(df) |->
        LET G == Group(S, df[i])
            avg_burn_rate == BurnRate(G)
        IN  [ service_name |-> df[i],
              red_count |-> CountSeverityDims(G, RED, 1),
              green_count |-> CountSeverityDims(G, GREEN, 1),
              avg_burn_rate |-> IF notna(avg_burn_rate) THEN avg_burn_rate ELSE R(0) ]]

(* WHERE timeliness_health = 'UNHEALTHY' *)
TimelinessIssueRow(r) == r.timeliness_health = "UNHEALTHY"

(* The frames get_timeliness_issues may read: one row per service of the
   filtered rows, in any order (the query has no ORDER BY). *)
TimelinessFrames(S) == Perms(GroupNames({r \in S : TimelinessIssueRow(r)}))

(* The result rows, with the fields that do not depend on which row any()
   picks; timeliness_health is UNHEALTHY in every filtered row. *)
get_timeliness_issues(S, df) ==
    LET W == {r \in S : TimelinessIssueRow(r)}
    IN  [i \in 1..Len(df) |->
            LET G == Group(W, df[i])
                avg_p95 == AVG(G, "percentile_95")
                avg_error_rate == AVG(G, "error_rate")
            IN  [ service_name |-> df[i],
                  timeliness_health |-> "UNHEALTHY",
                  avg_p95 |-> IF notna(avg_p95) THEN avg_p95 ELSE R(0),
                  avg_error_rate |->
                      IF notna(avg_error_rate) THEN avg_error_rate ELSE R(0) ]]

(* The share of a target above which a service that misses an SLO counts
   as degraded. *)
DegradedShare == Rat(8, 10)

(* The health class with the degraded share at 1.2 of the target. *)
HealthClass_AboveTarget(row) ==
    LET error_slo_met == RLe(row.avg_error_rate, row.error_slo_target)
        response_slo_met == RLe(row.avg_response_time, row.response_slo_target)
    IN  IF error_slo_met /\ response_slo_met THEN "healthy"
        ELSE IF \/ RGt(row.avg_error_rate, SqlMul(row.error_slo_target, Rat(12, 10)))
                \/ RGt(row.avg_response_time,
                       SqlMul(row.response_slo_target, Rat(12, 10)))
             THEN "degraded"
             ELSE "violated"

(* The branch one row of the frame takes in get_service_health_overview's
   loop; a comparison with NaN is False. *)
HealthClass(row) ==
    LET error_slo_met == RLe(row.avg_error_rate, row.error_slo_target)
        response_slo_met == RLe(row.avg_response_time, row.response_slo_target)
    IN  IF error_slo_met /\ response_slo_met THEN "healthy"
        ELSE IF ~error_slo_met \/ ~response_slo_met
        THEN (IF \/ RGt(row.avg_error_rate, SqlMul(row.error_slo_target, DegradedShare))
                 \/ RGt(row.avg_response_time,
                        SqlMul(row.response_slo_target, DegradedShare))
              THEN "degraded"
              ELSE "violated")
        ELSE "none"

(* SELECT AVG(error_rate), AVG(avg_response_time), MAX(short_target_slo),
   MAX(response_slo) ... GROUP BY transaction_name *)
HealthOverviewFrame(S) ==
    [ name \in GroupNames(S) |->
        [ avg_error_rate |-> AVG(Group(S, name), "error_rate"),
          avg_response_time |-> AVG(Group(S, name), "avg_response_time"),
          error_slo_target |-> MAXCol(Group(S, name), "short_target_slo"),
          response_slo_target |-> MAXCol(Group(S, name), "response_slo") ] ]

(* The class of every service, and the value get_service_health_overview
   returns from them. *)
HealthClasses(S) == [name \in GroupNames(S) |-> HealthClass(HealthOverviewFrame(S)[name])]

get_service_health_overview(S) ==
    LET classes == HealthClasses(S)
        total_services == Cardinality(GroupNames(S))
        healthy_count == Cardinality({n \in DOMAIN classes : classes[n] = "healthy"})
        degraded_count == Cardinality({n \in DOMAIN classes : classes[n] = "degraded"})
        violated_count == Cardinality({n \in DOMAIN classes : classes[n] = "violated"})
    IN  [ total_services |-> total_services,
          healthy_services |-> healthy_count,
          degraded_services |-> degraded_count,
          violated_services |-> violated_count,
          health_percentage |-> IF total_services > 0
                                THEN RMul(Rat(healthy_count, total_services), R(100))
                                ELSE R(0) ]

----------------------------------------------------------------------------
(* FunctionExecutor *)

DEFAULT_TIME_WINDOW_MINUTES == 30

(* An optional argument is the empty set when the caller leaves it out. *)
Omitted == {}
Given(v) == {v}
Param(arg, default) == IF arg = Omitted THEN default ELSE CHOOSE v \in arg : TRUE

(* _get_degrading_services(time_window_minutes=30) hands its argument to
   detect_degrading_services as the first positional parameter. *)
ExecutorWindowDays(time_window_minutes) ==
    Param(time_window_minutes, DEFAULT_TIME_WINDOW_MINUTES)

----------------------------------------------------------------------------
(* Inputs *)

MaxLimit == 2

Thresholds == {20, 50, 100}

WindowArgs == {Omitted} \cup {Given(d) : d \in 1..MaxWindow}
ThresholdArgs == {Omitted} \cup {Given(t) : t \in Thresholds}

----------------------------------------------------------------------------
(* Actions *)

NoCall == [op |-> "none"]

Init ==
    /\ store = {}
    /\ call = NoCall
    /\ ret = <<>>

Idle == call = NoCall

(* One hourly row reaches the table. *)
InsertRow(row) ==
    /\ Idle
    /\ Cardinality(store) < MaxRecords
    /\ \A r \in store : ~(r.transaction_name = row.transaction_name
                          /\ r.timestamp = row.timestamp)
    /\ store' = store \cup {row}
    /\ call' = NoCall
    /\ ret' = <<>>

DetectCall(via, no_parameters, time_window_days, threshold_percent, c) ==
    LET value == FlagAndSort(c.compared, threshold_percent)
    IN  /\ call' = [ op |-> "detect_degrading_services",
                     via |-> via,
                     no_parameters |-> no_parameters,
                     time_window_days |-> time_window_days,
                     threshold_percent |-> threshold_percent,
                     queried |-> c.queried,
                     windows |-> c.windows,
                     recent_rows |-> c.recent_rows,
                     baseline_rows |-> c.baseline_rows ]
        /\ ret' = IF via = "execute"
                  THEN [degrading_services |-> value, count |-> Len(value)]
                  ELSE value
        /\ UNCHANGED store

(* detector.detect_degrading_services(): both parameters defaulted, or
   both given *)
DetectDegradingServices ==
    /\ Idle
    /\ \E d \in WindowArgs :
        LET time_window_days == Param(d, DEGRADATION_WINDOW_DAYS)
        IN  \E time_range \in get_time_range(store) :
            \E order \in ComparisonOrders(store, time_range, time_window_days) :
            LET c == CompareWindows(store, time_range, time_window_days, order)
            IN  \E t \in IF d = Omitted THEN {Omitted} ELSE ThresholdArgs \ {Omitted} :
                    DetectCall("direct", d = Omitted /\ t = Omitted, time_window_days,
                               Param(t, DEGRADATION_THRESHOLD_PERCENT), c)

(* executor.execute('get_degrading_services', parameters) *)
ExecuteGetDegradingServices ==
    /\ Idle
    /\ \E m \in WindowArgs :
        LET time_window_days == ExecutorWindowDays(m)
        IN  \E time_range \in get_time_range(store) :
            \E order \in ComparisonOrders(store, time_range, time_window_days) :
                DetectCall("execute", m = Omitted, time_window_days,
                           DEGRADATION_THRESHOLD_PERCENT,
                           CompareWindows(store, time_range, time_window_days, order))

(* aggregator.get_services_by_burn_rate(limit) *)
GetServicesByBurnRate ==
    /\ Idle
    /\ \E limit \in 1..MaxLimit :
        \E df \in BurnRateFrames(store, limit) :
            /\ call' = [op |-> "get_services_by_burn_rate", limit |-> limit]
            /\ ret' = get_services_by_burn_rate(store, df)
            /\ UNCHANGED store

(* The service_name argument of get_volume_trends: a stored or an unknown
   name. *)
VolumeServiceArgs == Services \cup {"Z"}

(* detector.get_volume_trends(service_name, time_window_days=7) *)
GetVolumeTrends ==
    /\ Idle
    /\ \E service_name \in VolumeServiceArgs, d \in WindowArgs :
        \E time_range \in get_time_range(store) :
            LET time_window_days == Param(d, 7)
                v == get_volume_trends(store, time_range, service_name, time_window_days)
            IN  /\ call' = [ op |-> "get_volume_trends",
                             service_name |-> service_name,
                             time_window_days |-> time_window_days,
                             queried |-> v.queried ]
                /\ ret' = v.value
                /\ UNCHANGED store

(* The caller takes the returned value; the next request starts. *)
Return ==
    /\ ~Idle
    /\ call' = NoCall
    /\ ret' = <<>>
    /\ UNCHANGED store

InsertDegradationRow ==
    /\ Idle
    /\ \E name \in Services, ts \in Times, given \in DegradationSamples :
        InsertRow(MakeRow(name, ts, given))

Next ==
    \/ InsertDegradationRow
    \/ DetectDegradingServices
    \/ ExecuteGetDegradingServices
    \/ GetServicesByBurnRate
    \/ GetVolumeTrends
    \/ Return

Spec == Init /\ [][Next]_vars

----------------------------------------------------------------------------
(* The percent-change function on its own *)

MaxTenths == 13

PctInputs == {Rat(n, 10) : n \in (-MaxTenths)..MaxTenths}

InitPct ==
    /\ store = {}
    /\ ret = <<>>
    /\ call \in {[op |-> "input", baseline |-> b, current |-> c] :
                    b \in PctInputs, c \in PctInputs}

ApplyPercentChange ==
    /\ call.op = "input"
    /\ call' = [call EXCEPT !.op = "calculate_percent_change"]
    /\ ret' = calculate_percent_change(call.baseline, call.current)
    /\ UNCHANGED store

NextPct == ApplyPercentChange

SpecPct == InitPct /\ [][NextPct]_vars

----------------------------------------------------------------------------
(* Composite health score *)

H == "HEALTHY"
U == "UNHEALTHY"

HealthRow(eb, response, timeliness, asp_eb, asp_response) ==
    [ eb_health |-> eb, response_health |-> response,
      timeliness_health |-> timeliness, aspirational_eb_health |-> asp_eb,
      aspirational_response_health |-> asp_response ]

HealthSamples ==
    { HealthRow(H, H, U, U, U), HealthRow(U, U, U, U, U),
      HealthRow(U, U, H, H, U), HealthRow(U, U, U, U, H) }

InsertHealthRow ==
    /\ Idle
    /\ \E name \in Services, ts \in Times, given \in HealthSamples :
        InsertRow(MakeRow(name, ts, given))

(* aggregator.get_composite_health_score() *)
GetCompositeHealthScore ==
    /\ Idle
    /\ \E df \in BurnOrderedFrames(store) :
        /\ call' = [op |-> "get_composite_health_score"]
        /\ ret' = get_composite_health_score(store, df)
        /\ UNCHANGED store

NextHealth ==
    \/ InsertHealthRow
    \/ GetCompositeHealthScore
    \/ Return

SpecHealth == Init /\ [][NextHealth]_vars

----------------------------------------------------------------------------
(* Exhausted error budgets *)

BudgetRow(consumed, left, error_rate, target) ==
    [ eb_actual_consumed_percent |-> consumed, eb_left_count |-> R(left),
      error_rate |-> R(error_rate), short_target_slo |-> R(target) ]

BudgetSamples ==
    { BudgetRow(Rat(999, 10), 1, 1, 1), BudgetRow(R(100), 0, 2, 1),
      BudgetRow(R(105), -3, 3, 0), BudgetRow(R(50), -2, 1, 2) }

InsertBudgetRow ==
    /\ Idle
    /\ \E name \in Services, ts \in Times, given \in BudgetSamples :
        InsertRow(MakeRow(name, ts, given))

(* aggregator.get_budget_exhausted_services() *)
GetBudgetExhaustedServices ==
    /\ Idle
    /\ \E df \in BudgetExhaustedFrames(store) :
        /\ call' = [op |-> "get_budget_exhausted_services"]
        /\ ret' = get_budget_exhausted_services(store, df)
        /\ UNCHANGED store

NextBudget ==
    \/ InsertBudgetRow
    \/ GetBudgetExhaustedServices
    \/ Return

SpecBudget == Init /\ [][NextBudget]_vars

----------------------------------------------------------------------------
(* Aspirational SLO gap *)

GapSamples ==
    { HealthRow(H, H, U, U, H), HealthRow(U, H, U, U, U),
      HealthRow(H, H, H, H, H), HealthRow(U, U, U, H, H) }

InsertGapRow ==
    /\ Idle
    /\ \E name \in Services, ts \in Times, given \in GapSamples :
        InsertRow(MakeRow(name, ts, given))

(* aggregator.get_aspirational_slo_gap() *)
GetAspirationalSloGap ==
    /\ Idle
    /\ \E df \in AspirationalGapFrames(store) :
        /\ call' = [op |-> "get_aspirational_slo_gap"]
        /\ ret' = get_aspirational_slo_gap(store, df)
        /\ UNCHANGED store

NextGap ==
    \/ InsertGapRow
    \/ GetAspirationalSloGap
    \/ Return

SpecGap == Init /\ [][NextGap]_vars

----------------------------------------------------------------------------
(* Breach rate against error rate *)

BreachRow(response_error_rate, error_rate) ==
    [ response_error_rate |-> R(response_error_rate), error_rate |-> R(error_rate) ]

BreachSamples == { BreachRow(2, 1), BreachRow(1, 2), BreachRow(0, 0) }

(* The service_name argument: omitted, a stored or an unknown name, or ''. *)
ServiceArgs == {Omitted} \cup {Given(n) : n \in Services \cup {"Z", ""}}

InsertBreachRow ==
    /\ Idle
    /\ \E name \in Services, ts \in Times, given \in BreachSamples :
        InsertRow(MakeRow(name, ts, given))

(* aggregator.get_breach_vs_error_analysis(service_name) *)
GetBreachVsErrorAnalysis ==
    /\ Idle
    /\ \E service_name \in ServiceArgs :
        \E df \in BreachFrames(store, service_name) :
            /\ call' = [op |-> "get_breach_vs_error_analysis",
                        service_name |-> service_name]
            /\ ret' = get_breach_vs_error_analysis(store, service_name, df)
            /\ UNCHANGED store

NextBreach ==
    \/ InsertBreachRow
    \/ GetBreachVsErrorAnalysis
    \/ Return

SpecBreach == Init /\ [][NextBreach]_vars

----------------------------------------------------------------------------
(* Slowest services *)

SlowRow(avg_response_time, percentile_99) ==
    [ avg_response_time |-> R(avg_response_time), percentile_99 |-> percentile_99 ]

SlowSamples == { SlowRow(1, R(3)), SlowRow(2, NULL), SlowRow(4, R(1)) }

InsertSlowRow ==
    /\ Idle
    /\ \E name \in Services, ts \in Times, given \in SlowSamples :
        InsertRow(MakeRow(name, ts, given))

(* aggregator.get_slowest_services(limit) *)
GetSlowestServices ==
    /\ Idle
    /\ \E limit \in 1..MaxLimit :
        \E df \in SlowestFrames(store, limit) :
            /\ call' = [op |-> "get_slowest_services", limit |-> limit]
            /\ ret' = get_slowest_services(store, df)
            /\ UNCHANGED store

NextSlow ==
    \/ InsertSlowRow
    \/ GetSlowestServices
    \/ Return

SpecSlow == Init /\ [][NextSlow]_vars

----------------------------------------------------------------------------
(* Severity heatmap *)

AMBER == "#FFA500"

SeverityRow(response, eb, timeliness, asp_response, asp_eb, error_rate, target) ==
    [ response_severity |-> response, eb_severity |-> eb,
      timeliness_severity |-> timeliness,
      aspirational_response_severity |-> asp_response,
      aspirational_eb_severity |-> asp_eb,
      error_rate |-> R(error_rate), short_target_slo |-> R(target) ]

SeveritySamples ==
    { SeverityRow(RED, GREEN, AMBER, GREEN, RED, 1, 1),
      SeverityRow(GREEN, GREEN, GREEN, GREEN, GREEN, 0, 0),
      SeverityRow(RED, RED, RED, RED, RED, 2, 1),
      SeverityRow(AMBER, AMBER, AMBER, AMBER, AMBER, 1, 2) }

InsertSeverityRow ==
    /\ Idle
    /\ \E name \in Services, ts \in Times, given \in SeveritySamples :
        InsertRow(MakeRow(name, ts, given))

(* aggregator.get_severity_heatmap() *)
GetSeverityHeatmap ==
    /\ Idle
    /\ \E df \in BurnOrderedFrames(store) :
        /\ call' = [op |-> "get_severity_heatmap"]
        /\ ret' = get_severity_heatmap(store, df)
        /\ UNCHANGED store

NextSeverity ==
    \/ InsertSeverityRow
    \/ GetSeverityHeatmap
    \/ Return

SpecSeverity == Init /\ [][NextSeverity]_vars

----------------------------------------------------------------------------
(* Timeliness issues *)

TimelinessSamples ==
    { [timeliness_health |-> H, response_health |-> H],
      [timeliness_health |-> U, response_health |-> H],
      [timeliness_health |-> U, response_health |-> U] }

InsertTimelinessRow ==
    /\ Idle
    /\ \E name \in Services, ts \in Times, given \in TimelinessSamples :
        InsertRow(MakeRow(name, ts, given))

(* aggregator.get_timeliness_issues() *)
GetTimelinessIssues ==
    /\ Idle
    /\ \E df \in TimelinessFrames(store) :
        /\ call' = [op |-> "get_timeliness_issues"]
        /\ ret' = get_timeliness_issues(store, df)
        /\ UNCHANGED store

NextTimeliness ==
    \/ InsertTimelinessRow
    \/ GetTimelinessIssues
    \/ Return

SpecTimeliness == Init /\ [][NextTimeliness]_vars

----------------------------------------------------------------------------
(* Degradation with a missing percentile *)

(* A row with no P95 and lower rows with one. *)
NullSamples ==
    { [error_rate |-> R(2), avg_response_time |-> R(4),
       percentile_95 |-> NULL, percentile_99 |-> R(4)],
      [error_rate |-> R(1), avg_response_time |-> R(2),
       percentile_95 |-> R(2), percentile_99 |-> R(2)] }

(* threshold_percent is any float the caller gives. *)
NullThresholds == {-10, 20}

InsertNullRow ==
    /\ Idle
    /\ \E name \in Services, ts \in Times, given \in NullSamples :
        InsertRow(MakeRow(name, ts, given))

(* detector.detect_degrading_services(time_window_days, threshold_percent) *)
DetectAtThreshold ==
    /\ Idle
    /\ \E time_window_days \in 1..MaxWindow, threshold_percent \in NullThresholds :
        \E time_range \in get_time_range(store) :
            \E order \in ComparisonOrders(store, time_range, time_window_days) :
                DetectCall("direct", FALSE, time_window_days, threshold_percent,
                           CompareWindows(store, time_range, time_window_days, order))

NextNull ==
    \/ InsertNullRow
    \/ DetectAtThreshold
    \/ Return

SpecNull == Init /\ [][NextNull]_vars

----------------------------------------------------------------------------
(* Service health overview *)

OverviewRow(error_rate, response_time, error_target, response_target) ==
    [ error_rate |-> error_rate, avg_response_time |-> response_time,
      short_target_slo |-> error_target, response_slo |-> response_target ]

(* Rows within both targets, above the error target, with no error rate,
   and with a negative error target. *)
OverviewSamples ==
    { OverviewRow(R(0), R(1), R(1), R(2)),
      OverviewRow(R(11), R(1), R(10), R(2)),
      OverviewRow(NULL, R(1), R(1), R(2)),
      OverviewRow(R(-9), R(1), R(-10), R(2)) }

InsertOverviewRow ==
    /\ Idle
    /\ \E name \in Services, ts \in Times, given \in OverviewSamples :
        InsertRow(MakeRow(name, ts, given))

(* aggregator.get_service_health_overview() *)
GetServiceHealthOverview ==
    /\ Idle
    /\ call' = [op |-> "get_service_health_overview", classes |-> HealthClasses(store)]
    /\ ret' = get_service_health_overview(store)
    /\ UNCHANGED store

NextOverview ==
    \/ InsertOverviewRow
    \/ GetServiceHealthOverview
    \/ Return

SpecOverview == Init /\ [][NextOverview]_vars

----------------------------------------------------------------------------
(* Tool dispatch *)

(* The names of the TOOLS list. *)
TOOLS ==
    { "get_degrading_services", "get_error_code_distribution", "get_current_sli",
      "predict_issues_today", "get_service_summary", "get_slo_violations",
      "calculate_error_budget", "get_volume_trends", "get_service_health_overview",
      "get_top_services_by_volume", "get_slowest_services",
      "get_error_prone_services", "get_top_errors", "get_error_details_by_code",
      "get_historical_patterns", "get_services_by_burn_rate",
      "get_aspirational_slo_gap", "get_timeliness_issues",
      "get_breach_vs_error_analysis", "get_budget_exhausted_services",
      "get_composite_health_score", "get_severity_heatmap",
      "get_slo_governance_status" }

(* The keys of execute's function_map. *)
FunctionMapKeys ==
    { "get_degrading_services", "get_current_sli", "get_slo_violations",
      "get_service_health_overview", "get_top_services_by_volume",
      "get_slowest_services", "get_error_prone_services",
      "calculate_error_budget", "get_service_summary", "predict_issues_today",
      "get_volume_trends", "get_historical_patterns",
      "get_services_by_burn_rate", "get_aspirational_slo_gap",
      "get_timeliness_issues", "get_breach_vs_error_analysis",
      "get_budget_exhausted_services", "get_composite_health_score",
      "get_severity_heatmap", "get_slo_governance_status" }

(* function_map: each key is bound to the method of the same name with a
   leading underscore. *)
function_map == [name \in FunctionMapKeys |-> <<"self", "_" \o name>>]

(* execute(function_name, parameters) up to the handler's call: the error
   value for a name function_map has no key for, else the one handler the
   name is bound to. *)
execute(function_name) ==
    IF function_name \notin DOMAIN function_map
    THEN [error |-> <<"Unknown function", function_name>>]
    ELSE [handler |-> function_map[function_name]]

(* The names a caller may give: the advertised ones and others. *)
FunctionNames == TOOLS \cup FunctionMapKeys \cup {"get_weather", ""}

(* executor.execute(function_name, {}) *)
Execute ==
    /\ Idle
    /\ \E function_name \in FunctionNames :
        /\ call' = [op |-> "execute", function_name |-> function_name]
        /\ ret' = execute(function_name)
        /\ UNCHANGED store

NextTools ==
    \/ InsertDegradationRow
    \/ Execute
    \/ Return

SpecTools == Init /\ [][NextTools]_vars

----------------------------------------------------------------------------
(* ClaudeClient *)
(* In the specifications of this section `store` is conversation_history,  *)
(* `call` the frame of the method in progress (its position pc and its     *)
(* locals) and `ret` what the method has returned or yielded so far.       *)

MaxHistory == 2

(* A str content, kept as a one-block list so that it compares with the
   block lists of the other messages. *)
Str(text) == <<[type |-> "str", text |-> text]>>

TextBlock(text) == [type |-> "text", text |-> text]
ToolUse(id, name) == [type |-> "tool_use", id |-> id, name |-> name, input |-> "{}"]

(* [block for block in content if block.get("type") == "tool_use"] *)
ToolUsesIn(content) == SelectSeq(content, LAMBDA block : block.type = "tool_use")

RECURSIVE CountToolUses(_)
CountToolUses(history) ==
    IF history = <<>> THEN 0
    ELSE Len(ToolUsesIn(history[1].content)) + CountToolUses(Tail(history))

(* The content lists the model answers with: nothing, text, one tool
   request, or text and two tool requests; the ids are fresh. *)
ModelContents(history) ==
    LET id == CountToolUses(history) + 1
    IN  { <<>>,
          <<TextBlock("t")>>,
          <<ToolUse(id, "get_current_sli")>>,
          <<TextBlock("t"), ToolUse(id, "get_service_summary"),
            ToolUse(id + 1, "get_current_sli")>> }

(* One call of invoke_model: it raises, or it gives a response body. *)
ModelResponses(history) ==
    {[raised |-> TRUE]} \cup
    { [ raised |-> FALSE, content |-> c,
        stop_reason |-> IF ToolUsesIn(c) # <<>> THEN "tool_use" ELSE "end_turn" ] :
          c \in ModelContents(history) }

(* The handlers whose service_name parameter has no default. *)
RequiredParameter ==
    { "get_service_summary", "calculate_error_budget", "get_volume_trends",
      "get_historical_patterns" }

(* json.dumps(value) *)
Json(value) == [json |-> value]

(* The content of one tool_result: tool_executor.execute(name, {}) and
   json.dumps of its value, or of the error when the call raises: a missing
   executor (None has no execute) and a handler called without its
   required parameter raise. *)
ToolResultContent(tool_use, tool_executor) ==
    IF ~tool_executor THEN Json([error |-> "AttributeError"])
    ELSE LET result == execute(tool_use.name)
         IN  IF "error" \in DOMAIN result THEN Json(result)
             ELSE IF tool_use.name \in RequiredParameter
                  THEN Json([error |-> "TypeError"])
             ELSE Json(result)

ToolRaises(tool_use, tool_executor) ==
    \/ ~tool_executor
    \/ tool_use.name \in DOMAIN function_map /\ tool_use.name \in RequiredParameter

(* The loop stopping at the first tool that raises, with no result for it
   and for the tools after it. *)
ToolResults_StopAtRaise(tool_uses, tool_executor) ==
    LET bad == {i \in 1..Len(tool_uses) : ToolRaises(tool_uses[i], tool_executor)}
        n == IF bad = {} THEN Len(tool_uses)
             ELSE (CHOOSE i \in bad : \A j \in bad : i <= j) - 1
    IN  [ i \in 1..n |->
            [ type |-> "tool_result",
              tool_use_id |-> tool_uses[i].id,
              content |-> ToolResultContent(tool_uses[i], tool_executor) ] ]

(* The for loop over tool_uses: one tool_result per tool_use, in order. *)
ToolResults(tool_uses, tool_executor) ==
    [ i \in 1..Len(tool_uses) |->
        [ type |-> "tool_result",
          tool_use_id |-> tool_uses[i].id,
          content |-> ToolResultContent(tool_uses[i], tool_executor) ] ]

(* The record of one round of tool calls: the requests, and the place of
   the results in the history. *)
NoRound == [at |-> 0, tool_uses |-> <<>>]

Round(history, tool_uses) == [at |-> Len(history) + 1, tool_uses |-> tool_uses]

UserMessage(content) == [role |-> "user", content |-> content]
AssistantMessage(content) == [role |-> "assistant", content |-> content]

(* send_message: the user message is appended, the model is called, and its
   content is appended when it is not empty. *)
send_message(history, user_message, model) ==
    LET h == Append(history, UserMessage(Str(user_message)))
    IN  IF model.raised THEN [history |-> h, raised |-> TRUE]
        ELSE [ history |-> IF model.content # <<>>
                           THEN Append(h, AssistantMessage(model.content)) ELSE h,
               raised |-> FALSE, response |-> model ]

(* handle_tool_use: None when the response requests no tool; else the
   tools are run, their results appended as one user message, the model is
   called and its content appended when it is not empty. *)
handle_tool_use(history, response, tool_executor, model) ==
    LET tool_uses == ToolUsesIn(response.content)
        h == Append(history, UserMessage(ToolResults(tool_uses, tool_executor)))
    IN  IF tool_uses = <<>>
        THEN [history |-> history, raised |-> FALSE, none |-> TRUE, round |-> NoRound]
        ELSE IF model.raised
        THEN [ history |-> h, raised |-> TRUE, none |-> FALSE,
               round |-> Round(history, tool_uses) ]
        ELSE [ history |-> IF model.content # <<>>
                           THEN Append(h, AssistantMessage(model.content)) ELSE h,
               raised |-> FALSE, none |-> FALSE, response |-> model,
               round |-> Round(history, tool_uses) ]

(* The text chat returns: the text blocks joined, or the fallback. *)
TextResponse(content) ==
    IF \E i \in 1..Len(content) : content[i].type = "text" /\ content[i].text # ""
    THEN "t"
    ELSE "I was unable to generate a response. Please try rephrasing your question."

DEFAULT_MAX_TOOL_ITERATIONS == 5

(* The values of max_tool_iterations: those the callers give, and the
   default. *)
MaxToolIterations == {1, 2, DEFAULT_MAX_TOOL_ITERATIONS}

UserMessages == {"m"}

InitChat ==
    /\ store = <<>>
    /\ call = NoCall
    /\ ret = <<>>

CanStart == Idle /\ Len(store) <= MaxHistory

(* client.send_message(user_message) *)
SendMessage ==
    /\ CanStart
    /\ \E user_message \in UserMessages, model \in ModelResponses(store) :
        LET r == send_message(store, user_message, model)
        IN  /\ store' = r.history
            /\ call' = [op |-> "send_message", pc |-> "done", round |-> NoRound]
            /\ ret' = IF r.raised THEN <<"raised">> ELSE <<r.response>>

(* client.handle_tool_use(response, tool_executor), response being the
   last assistant message *)
HandleToolUse ==
    /\ CanStart
    /\ store # <<>>
    /\ store[Len(store)].role = "assistant"
    /\ \E tool_executor \in BOOLEAN :
        \E model \in ModelResponses(store) :
            LET r == handle_tool_use(store, store[Len(store)], tool_executor, model)
            IN  /\ store' = r.history
                /\ call' = [op |-> "handle_tool_use", pc |-> "done", round |-> r.round]
                /\ ret' = IF r.raised THEN <<"raised">>
                          ELSE IF r.none THEN <<"None">> ELSE <<r.response>>

(* client.clear_history() *)
ClearHistory ==
    /\ Idle
    /\ store # <<>>
    /\ store' = <<>>
    /\ call' = [op |-> "clear_history", pc |-> "done", round |-> NoRound]
    /\ ret' = <<>>

(* client.chat(user_message, tools, tool_executor, system_prompt,
   max_tool_iterations), up to the while loop *)
Chat ==
    /\ CanStart
    /\ \E user_message \in UserMessages, tool_executor \in BOOLEAN,
          max_tool_iterations \in MaxToolIterations, model \in ModelResponses(store) :
        LET r == send_message(store, user_message, model)
        IN  /\ store' = r.history
            /\ call' = [ op |-> "chat",
                         pc |-> IF r.raised THEN "done" ELSE "while",
                         tool_executor |-> tool_executor,
                         max_tool_iterations |-> max_tool_iterations,
                         iterations |-> 0,
                         rounds |-> 0,
                         round |-> NoRound,
                         response |-> IF r.raised THEN <<>> ELSE r.response ]
            /\ ret' = IF r.raised THEN <<"raised">> ELSE <<>>

(* One pass of chat's while loop. *)
ChatIteration ==
    /\ call.op = "chat" /\ call.pc = "while"
    /\ call.tool_executor
    /\ call.response.stop_reason = "tool_use"
    /\ call.iterations < call.max_tool_iterations
    /\ \E model \in ModelResponses(store) :
        LET r == handle_tool_use(store, call.response, call.tool_executor, model)
        IN  /\ store' = r.history
            /\ call' = [ call EXCEPT
                           !.pc = IF r.raised THEN "done" ELSE "while",
                           !.iterations = IF r.raised THEN @ ELSE @ + 1,
                           !.rounds = @ + 1,
                           !.round = r.round,
                           !.response = IF r.raised THEN <<>> ELSE r.response ]
            /\ ret' = IF r.raised THEN <<"raised">> ELSE <<>>

(* chat after its loop: the text of the last response is returned. *)
ChatReturn ==
    /\ call.op = "chat" /\ call.pc = "while"
    /\ ~ ( /\ call.tool_executor
           /\ call.response.stop_reason = "tool_use"
           /\ call.iterations < call.max_tool_iterations )
    /\ call' = [call EXCEPT !.pc = "done"]
    /\ ret' = <<TextResponse(call.response.content)>>
    /\ UNCHANGED store

(* client.chat_stream(...), consumed by its caller, up to the while loop *)
ChatStream ==
    /\ CanStart
    /\ \E user_message \in UserMessages, tool_executor \in BOOLEAN,
          max_tool_iterations \in MaxToolIterations :
        /\ store' = Append(store, UserMessage(Str(user_message)))
        /\ call' = [ op |-> "chat_stream", pc |-> "while",
                     tool_executor |-> tool_executor,
                     max_tool_iterations |-> max_tool_iterations,
                     iterations |-> 0,
                     rounds |-> 0,
                     round |-> NoRound ]
        /\ ret' = <<>>

(* The content chat_stream builds from the stream: the text in one block,
   then the tool requests. *)
StreamContent(model) ==
    (IF \E i \in 1..Len(model.content) : model.content[i].type = "text"
     THEN <<TextBlock("t")>> ELSE <<>>) \o ToolUsesIn(model.content)

(* The chunks one pass yields. *)
StreamYields(model, runs_tools) ==
    (IF \E i \in 1..Len(model.content) : model.content[i].type = "text"
     THEN <<"t">> ELSE <<>>)
    \o (IF runs_tools
        THEN [i \in 1..Len(ToolUsesIn(model.content)) |-> "Calling"]
        ELSE <<>>)

(* One pass of chat_stream's while loop. *)
ChatStreamIteration ==
    /\ call.op = "chat_stream" /\ call.pc = "while"
    /\ call.iterations <= call.max_tool_iterations
    /\ \E model \in ModelResponses(store) :
        IF model.raised
        THEN /\ call' = [call EXCEPT !.pc = "done"]
             /\ ret' = Append(ret, "Error")
             /\ UNCHANGED store
        ELSE LET content == StreamContent(model)
                 tool_uses == ToolUsesIn(model.content)
                 h == Append(store, AssistantMessage(
                          IF content # <<>> THEN content ELSE <<TextBlock("")>>))
                 runs_tools == /\ model.stop_reason = "tool_use"
                               /\ call.tool_executor
                               /\ tool_uses # <<>>
             IN  /\ ret' = ret \o StreamYields(model, runs_tools)
                 /\ IF runs_tools
                    THEN /\ store' = Append(h, UserMessage(
                                         ToolResults(tool_uses, call.tool_executor)))
                         /\ call' = [ call EXCEPT !.iterations = @ + 1,
                                                  !.rounds = @ + 1,
                                                  !.round = Round(h, tool_uses) ]
                    ELSE /\ store' = h
                         /\ call' = [call EXCEPT !.pc = "done"]

(* chat_stream leaves its loop when iterations has passed the limit. *)
ChatStreamEnd ==
    /\ call.op = "chat_stream" /\ call.pc = "while"
    /\ ~ (call.iterations <= call.max_tool_iterations)
    /\ call' = [call EXCEPT !.pc = "done"]
    /\ UNCHANGED <<store, ret>>

(* The caller has the value, or the exception; the client is free. *)
ReturnToCaller ==
    /\ call.op \in {"send_message", "handle_tool_use", "clear_history", "chat",
                    "chat_stream"}
    /\ call.pc = "done"
    /\ call' = NoCall
    /\ ret' = <<>>
    /\ UNCHANGED store

NextChat ==
    \/ SendMessage
    \/ HandleToolUse
    \/ ClearHistory
    \/ Chat
    \/ ChatIteration
    \/ ChatReturn
    \/ ChatStream
    \/ ChatStreamIteration
    \/ ChatStreamEnd
    \/ ReturnToCaller

SpecChat == InitChat /\ [][NextChat]_vars

(* The conversations app.py holds: chat and chat_stream calls only. *)
NextConversation ==
    \/ Chat
    \/ ChatIteration
    \/ ChatReturn
    \/ ChatStream
    \/ ChatStreamIteration
    \/ ChatStreamEnd
    \/ ReturnToCaller

SpecConversation == InitChat /\ [][NextConversation]_vars

----------------------------------------------------------------------------
(* KeycloakAuthManager *)
(* In this section `store` is the manager: token, token_expiry, the holder *)
(* of _lock, the _stop_refresh event, the clock in seconds and the number  *)
(* of tokens Keycloak has issued.  `call` holds the position of the thread *)
(* calling get_access_token and of the refresh thread, and `ret` the       *)
(* values of the last two get_access_token calls.                          *)

MaxTicks == 10

REFRESH_INTERVAL == 240
DEFAULT_EXPIRES_IN == 300
EXPIRY_MARGIN == 30

(* datetime.now() < token_expiry - timedelta(seconds=30) *)
is_token_valid(manager) ==
    /\ manager.token # 0
    /\ manager.now < manager.token_expiry - EXPIRY_MARGIN

(* _fetch_new_token when the request succeeds: a token Keycloak has not
   issued before, expiring expires_in seconds from now. *)
fetch_new_token(manager) ==
    [ manager EXCEPT !.token = manager.issued + 1,
                     !.issued = manager.issued + 1,
                     !.token_expiry = manager.now + DEFAULT_EXPIRES_IN ]

(* The manager after __init__: the first token is fetched and the refresh
   thread has started its first wait. *)
InitKeycloak ==
    /\ store = [ token |-> 1, issued |-> 1, token_expiry |-> DEFAULT_EXPIRES_IN,
                 now |-> 0, lock |-> "free", stop_refresh |-> FALSE ]
    /\ call = [op |-> "keycloak", caller |-> "idle", refresher |-> "waiting",
               wait_start |-> 0]
    /\ ret = <<>>

(* The clock moves on. *)
Tick ==
    /\ store.now + EXPIRY_MARGIN <= MaxTicks * EXPIRY_MARGIN
    /\ store' = [store EXCEPT !.now = @ + EXPIRY_MARGIN]
    /\ UNCHANGED <<call, ret>>

(* get_access_token: with self._lock *)
GetAccessTokenLock ==
    /\ call.caller = "idle"
    /\ store.lock = "free"
    /\ store' = [store EXCEPT !.lock = "caller"]
    /\ call' = [call EXCEPT !.caller = "locked"]
    /\ UNCHANGED ret

(* The last two values of get_access_token. *)
LastTwo(seq) == IF Len(seq) > 2 THEN Tail(seq) ELSE seq

(* The value of one get_access_token call, with the time of the call and
   the expiry of the token it returned. *)
TokenReturned(manager, fetched) ==
    [ token |-> manager.token, at |-> manager.now,
      expiry |-> manager.token_expiry, fetched |-> fetched ]

(* get_access_token under the lock: the cached token when it is valid,
   else a fetch, which gives a new token or raises; the lock is released. *)
GetAccessTokenBody ==
    /\ call.caller = "locked"
    /\ call' = [call EXCEPT !.caller = "idle"]
    /\ IF is_token_valid(store)
       THEN /\ store' = [store EXCEPT !.lock = "free"]
            /\ ret' = LastTwo(Append(ret, TokenReturned(store, FALSE)))
       ELSE \E ok \in BOOLEAN :
              IF ok
              THEN /\ store' = [fetch_new_token(store) EXCEPT !.lock = "free"]
                   /\ ret' = LastTwo(Append(ret,
                                  TokenReturned(fetch_new_token(store), TRUE)))
              ELSE /\ store' = [store EXCEPT !.lock = "free"]
                   /\ ret' = ret

(* _refresh_token_loop: the wait of refresh_interval seconds times out. *)
RefreshWake ==
    /\ call.refresher = "waiting"
    /\ ~store.stop_refresh
    /\ store.now >= call.wait_start + REFRESH_INTERVAL
    /\ call' = [call EXCEPT !.refresher = "acquire"]
    /\ UNCHANGED <<store, ret>>

(* _refresh_token_loop: with self._lock *)
RefreshLock ==
    /\ call.refresher = "acquire"
    /\ store.lock = "free"
    /\ store' = [store EXCEPT !.lock = "refresher"]
    /\ call' = [call EXCEPT !.refresher = "locked"]
    /\ UNCHANGED ret

(* _refresh_token_loop under the lock: the fetch, whatever the cached
   token; a failure is logged.  The next wait starts. *)
RefreshBody ==
    /\ call.refresher = "locked"
    /\ call' = [call EXCEPT !.refresher = "waiting", !.wait_start = store.now]
    /\ \E ok \in BOOLEAN :
          store' = [(IF ok THEN fetch_new_token(store) ELSE store) EXCEPT !.lock = "free"]
    /\ UNCHANGED ret

(* stop_refresh() sets the event. *)
StopRefresh ==
    /\ ~store.stop_refresh
    /\ store' = [store EXCEPT !.stop_refresh = TRUE]
    /\ UNCHANGED <<call, ret>>

(* The waiting refresh thread sees the event and leaves its loop. *)
RefreshStopped ==
    /\ call.refresher = "waiting"
    /\ store.stop_refresh
    /\ call' = [call EXCEPT !.refresher = "stopped"]
    /\ UNCHANGED <<store, ret>>

NextKeycloak ==
    \/ Tick
    \/ GetAccessTokenLock
    \/ GetAccessTokenBody
    \/ RefreshWake
    \/ RefreshLock
    \/ RefreshBody
    \/ StopRefresh
    \/ RefreshStopped

SpecKeycloak == InitKeycloak /\ [][NextKeycloak]_vars

----------------------------------------------------------------------------
(* PlatformAPIClient *)
(* In this section `store` is the Platform API server: the number of       *)
(* service records it holds and what it answers for a page past the data.  *)
(* `call` is the frame of query_service_health and `ret` its outcome.      *)

MaxServerRecords == 4
MaxPageSize == 3

ServiceRecord(i) == [key |-> i]
NoDataFound == [noDataFound |-> TRUE]

Servers ==
    { [records |-> n, past_data |-> a] :
        n \in 0..MaxServerRecords, a \in {"empty", "noDataFound"} }

(* _fetch_page when the request succeeds: the records of the page, and past
   the data an empty list or the single noDataFound record. *)
fetch_page(server, page_id, page_size) ==
    LET first == page_id * page_size + 1
        last == IF first + page_size - 1 < server.records
                THEN first + page_size - 1 ELSE server.records
    IN  IF first > server.records
        THEN (IF server.past_data = "empty" THEN <<>> ELSE <<NoDataFound>>)
        ELSE [i \in 1..(last - first + 1) |-> ServiceRecord(first + i - 1)]

(* len(page_data) == 1 and page_data[0].get('noDataFound') == True *)
IsNoDataFound(page_data) ==
    /\ Len(page_data) = 1
    /\ "noDataFound" \in DOMAIN page_data[1]
    /\ page_data[1].noDataFound = TRUE

(* The last-page test reading a full page as the last one. *)
IsLastPage_Full(page_data, page_size) == Len(page_data) <= page_size

(* len(page_data) < page_size *)
IsLastPage(page_data, page_size) == Len(page_data) < page_size

InitPaging ==
    /\ store \in Servers
    /\ call = NoCall
    /\ ret = <<>>

(* client.query_service_health(start_time, end_time, page_size=page_size),
   up to its loop *)
QueryServiceHealth ==
    /\ Idle
    /\ \E page_size \in 1..MaxPageSize :
        call' = [ op |-> "query_service_health", pc |-> "while",
                  page_size |-> page_size, page_id |-> 0, all_data |-> <<>>,
                  requested |-> <<>>, failed |-> FALSE ]
    /\ ret' = <<>>
    /\ UNCHANGED store

(* One pass of the loop: the page is fetched, or the fetch raises. *)
FetchPage ==
    /\ call.op = "query_service_health" /\ call.pc = "while"
    /\ UNCHANGED store
    /\ \E ok \in BOOLEAN :
        LET requested == Append(call.requested, call.page_id)
            page_data == fetch_page(store, call.page_id, call.page_size)
            all_data == call.all_data \o page_data
        IN  IF ~ok
            THEN /\ call' = [call EXCEPT !.pc = "done", !.requested = requested,
                                         !.failed = TRUE]
                 /\ ret' = IF call.all_data # <<>>
                           THEN [returned |-> call.all_data]
                           ELSE [raised |-> TRUE]
            ELSE IF page_data = <<>> \/ IsNoDataFound(page_data)
            THEN /\ call' = [call EXCEPT !.pc = "done", !.requested = requested]
                 /\ ret' = [returned |-> call.all_data]
            ELSE IF IsLastPage(page_data, call.page_size)
            THEN /\ call' = [call EXCEPT !.pc = "done", !.requested = requested,
                                         !.all_data = all_data]
                 /\ ret' = [returned |-> all_data]
            ELSE /\ call' = [call EXCEPT !.requested = requested,
                                         !.all_data = all_data,
                                         !.page_id = @ + 1]
                 /\ ret' = <<>>

(* The caller has the list, or the exception. *)
QueryReturn ==
    /\ call.op = "query_service_health" /\ call.pc = "done"
    /\ call' = NoCall
    /\ ret' = <<>>
    /\ UNCHANGED store

NextPaging ==
    \/ QueryServiceHealth
    \/ FetchPage
    \/ QueryReturn

SpecPaging == InitPaging /\ [][NextPaging]_vars

----------------------------------------------------------------------------
(* KafkaClickHouseConsumer *)
(* In this section `store` is the ClickHouse side: the rows the table has  *)
(* received, in order, and every batch handed to insert_batch.  `call` is  *)
(* the frame of consume_and_load; a row is the number it was flattened     *)
(* under.                                                                  *)

MaxMessages == 3
MaxSeries == 2
MaxBatchSize == 3

(* flatten_transaction_series: one row per item of transactionSeries, here
   numbered on from the rows flattened before. *)
flatten_transaction_series(flattened, series_count) ==
    [i \in 1..series_count |-> flattened + i]

InitPipeline ==
    /\ store = [table |-> <<>>, handed |-> <<>>]
    /\ call = NoCall
    /\ ret = <<>>

(* consumer.consume_and_load(batch_size), up to its loop *)
ConsumeAndLoad ==
    /\ Idle
    /\ store.handed = <<>>
    /\ \E batch_size \in 1..MaxBatchSize :
        call' = [ op |-> "consume_and_load", pc |-> "poll",
                  batch_size |-> batch_size, batch_rows |-> <<>>,
                  messages_processed |-> 0, total_rows_inserted |-> 0,
                  total_series_items |-> 0, interrupted_at |-> "none" ]
    /\ UNCHANGED <<store, ret>>

(* The loop takes the next message, flattens it and extends the buffer. *)
ConsumeMessage ==
    /\ call.op = "consume_and_load" /\ call.pc = "poll"
    /\ call.messages_processed < MaxMessages
    /\ \E series_count \in 0..MaxSeries :
        LET rows == flatten_transaction_series(call.total_series_items, series_count)
            batch_rows == call.batch_rows \o rows
        IN  call' = [ call EXCEPT
                        !.messages_processed = @ + 1,
                        !.total_series_items = @ + series_count,
                        !.batch_rows = batch_rows,
                        !.pc = IF Len(batch_rows) >= call.batch_size
                               THEN "insert" ELSE "poll" ]
    /\ UNCHANGED <<store, ret>>

(* insert_batch(rows) in ClickHouse: the rows reach the table, or the
   insert fails and none does. *)
insert_batch(clickhouse, rows, ok) ==
    [ table |-> IF ok THEN clickhouse.table \o rows ELSE clickhouse.table,
      handed |-> Append(clickhouse.handed, [rows |-> rows, ok |-> ok]) ]

(* The loop calls insert_batch(batch_rows). *)
InsertBatch ==
    /\ call.op = "consume_and_load" /\ call.pc = "insert"
    /\ \E ok \in BOOLEAN :
        /\ store' = insert_batch(store, call.batch_rows, ok)
        /\ call' = [call EXCEPT !.pc = IF ok THEN "inserted" ELSE "failed"]
    /\ UNCHANGED ret

(* insert_batch has returned: the rows are counted when it returned True,
   and the buffer is emptied. *)
BatchDone ==
    /\ call.op = "consume_and_load" /\ call.pc \in {"inserted", "failed"}
    /\ call' = [ call EXCEPT
                   !.total_rows_inserted =
                       IF call.pc = "inserted" THEN @ + Len(call.batch_rows) ELSE @,
                   !.batch_rows = <<>>,
                   !.pc = "poll" ]
    /\ UNCHANGED <<store, ret>>

(* Ctrl+C: KeyboardInterrupt is raised wherever the loop is, also inside
   insert_batch, whose except clause does not catch it. *)
KeyboardInterrupt ==
    /\ call.op = "consume_and_load"
    /\ call.pc \in {"poll", "insert", "inserted", "failed"}
    /\ call' = [call EXCEPT !.pc = "finally", !.interrupted_at = call.pc]
    /\ UNCHANGED <<store, ret>>

(* finally: the remaining rows are inserted and the summary printed. *)
FinalFlush ==
    /\ call.op = "consume_and_load" /\ call.pc = "finally"
    /\ \E ok \in BOOLEAN :
        IF call.batch_rows # <<>>
        THEN /\ store' = insert_batch(store, call.batch_rows, ok)
             /\ call' = [ call EXCEPT
                            !.pc = "done",
                            !.total_rows_inserted =
                                IF ok THEN @ + Len(call.batch_rows) ELSE @ ]
             /\ ret' = [ messages_processed |-> call.messages_processed,
                         total_series_items |-> call.total_series_items,
                         total_rows_inserted |-> call'.total_rows_inserted ]
        ELSE /\ store' = store
             /\ call' = [call EXCEPT !.pc = "done"]
             /\ ret' = [ messages_processed |-> call.messages_processed,
                         total_series_items |-> call.total_series_items,
                         total_rows_inserted |-> call.total_rows_inserted ]

NextPipeline ==
    \/ ConsumeAndLoad
    \/ ConsumeMessage
    \/ InsertBatch
    \/ BatchDone
    \/ KeyboardInterrupt
    \/ FinalFlush

SpecPipeline == InitPipeline /\ [][NextPipeline]_vars

----------------------------------------------------------------------------
(* Properties *)

IsDetect == call.op = "detect_degrading_services"

(* The list detect_degrading_services returned, on either call path. *)
Degrading == IF call.via = "execute" THEN ret.degrading_services ELSE ret

Returned == {Degrading[i].service_name : i \in 1..Len(Degrading)}

Latest == CHOOSE t \in {r.timestamp : r \in store} : \A r \in store : r.timestamp <= t

InRecent(r) ==
    /\ Latest - call.time_window_days <= r.timestamp
    /\ r.timestamp <= Latest

InBaseline(r) ==
    /\ Latest - 2 * call.time_window_days <= r.timestamp
    /\ r.timestamp < Latest - call.time_window_days

RecentOf(name) == {r \in store : r.transaction_name = name /\ InRecent(r)}
BaselineOf(name) == {r \in store : r.transaction_name = name /\ InBaseline(r)}

(* The services with a row in each window. *)
InBoth == {name \in Services : RecentOf(name) # {} /\ BaselineOf(name) # {}}

Changes(x) ==
    { x.error_rate_change_percent, x.response_time_change_percent,
      x.response_time_p95_change_percent, x.response_time_p99_change_percent }

ChangesOf(name) ==
    Changes(CompareRow(name, Aggregate(RecentOf(name)), Aggregate(BaselineOf(name))))

(* The largest of an entry's four changes. *)
MaxChange(x) == CHOOSE m \in Changes(x) : \A c \in Changes(x) : RGe(m, c)

(* C1: a service with rows in both windows is returned exactly when one of
   its four percent-changes is strictly greater than the threshold; a
   largest change equal to the threshold or below it is not returned.
   Change 10 and change 20 at threshold 20 are not flagged, change 25 is. *)
C1_ReturnedIffAboveThreshold ==
    /\ IsDetect /\ call.queried =>
        /\ \A name \in InBoth :
              name \in Returned <=>
                  \E c \in ChangesOf(name) : RGt(c, R(call.threshold_percent))
        /\ \A i \in 1..Len(Degrading) :
              \E c \in Changes(Degrading[i]) : RGt(c, R(call.threshold_percent))
    /\ ~IsDegrading(R(10), R(0), R(0), R(0), R(20))
    /\ ~IsDegrading(R(0), R(20), R(0), R(0), R(20))
    /\ IsDegrading(R(0), R(0), R(0), R(25), R(20))

(* A compared service whose largest change equals the threshold is left
   out, while another service is returned. *)
C1_Witness ==
    /\ IsDetect /\ call.queried
    /\ Degrading # <<>>
    /\ \E name \in InBoth \ Returned :
          /\ R(call.threshold_percent) \in ChangesOf(name)
          /\ \A c \in ChangesOf(name) : RLe(c, R(call.threshold_percent))

(* C2: calculate_percent_change(baseline, current) is
   (current - baseline) / baseline * 100 for every baseline other than 0,
   100 for baseline 0 and current > 0, and 0 for baseline 0 and current 0;
   1.0 -> 1.3 gives 30 and 0.50 -> 1.10 gives 120. *)
C2_PercentChange ==
    call.op = "calculate_percent_change" =>
        LET b == call.baseline
            c == call.current
        IN  /\ b[1] # 0 =>
                  ret[1] * (c[2] * b[1]) = ret[2] * ((c[1] * b[2] - b[1] * c[2]) * 100)
            /\ b[1] = 0 /\ c[1] > 0 => ret = <<100, 1>>
            /\ b[1] = 0 /\ c[1] = 0 => ret = <<0, 1>>
            /\ b = <<1, 1>> /\ c = <<13, 10>> => ret = <<30, 1>>
            /\ b = <<1, 2>> /\ c = <<11, 10>> => ret = <<120, 1>>

C2_Witness ==
    /\ call.op = "calculate_percent_change"
    /\ call.baseline = <<1, 2>> /\ call.current = <<11, 10>>
    /\ ret = <<120, 1>>

(* C3: every returned service carries the severity of the largest of its
   four changes m: critical if m > 100, warning if 50 < m <= 100, minor
   otherwise; 100 is warning, 50 is minor, and 150 / 75 / 25 are
   critical / warning / minor. *)
C3_SeverityOfMaxChange ==
    /\ IsDetect =>
        \A i \in 1..Len(Degrading) :
            LET m == MaxChange(Degrading[i])
                above100 == m[1] > 100 * m[2]
                above50 == m[1] > 50 * m[2]
            IN  Degrading[i].severity =
                    IF above100 THEN "critical"
                    ELSE IF above50 THEN "warning" ELSE "minor"
    /\ classify_severity(R(150), R(0), R(0), R(0)) = "critical"
    /\ classify_severity(R(0), R(75), R(0), R(0)) = "warning"
    /\ classify_severity(R(0), R(0), R(25), R(0)) = "minor"
    /\ classify_severity(R(0), R(0), R(0), R(100)) = "warning"
    /\ classify_severity(R(50), R(0), R(0), R(0)) = "minor"

(* A returned service whose largest change is exactly 100 is a warning,
   next to one that is critical. *)
C3_Witness ==
    /\ IsDetect
    /\ \E i \in 1..Len(Degrading) :
          MaxChange(Degrading[i]) = R(100) /\ Degrading[i].severity = "warning"
    /\ \E i \in 1..Len(Degrading) : Degrading[i].severity = "critical"

(* C4 as stated: a zero denominator is reported as an explicit null.  A
   returned service whose baseline error rate is 0 has a null error-rate
   change, and a service whose target is 0 is listed by
   get_services_by_burn_rate with a null burn rate. *)
C4_ZeroDenominatorIsNull ==
    /\ IsDetect =>
        \A i \in 1..Len(Degrading) :
            Degrading[i].error_rate_baseline = R(0) =>
                Degrading[i].error_rate_change_percent = NULL
    /\ call.op = "get_services_by_burn_rate" =>
        \A i \in 1..Len(ret) :
            (\A r \in store : r.transaction_name = ret[i].service_name
                                  => r.short_target_slo = R(0))
                => ret[i].avg_burn_rate = NULL

(* C4, amended: a zero denominator never fails the call.  The change of a
   metric whose baseline is 0 is reported as 100 when the recent value is
   positive and as 0 otherwise; a service whose target is 0 in every row
   has a NULL burn rate and is left out of get_services_by_burn_rate, whose
   every listed burn rate is a positive number. *)
C4_ZeroDenominatorSubstituted ==
    /\ IsDetect =>
        \A i \in 1..Len(Degrading) :
            Degrading[i].error_rate_baseline = R(0) =>
                Degrading[i].error_rate_change_percent =
                    IF Degrading[i].error_rate_recent[1] > 0 THEN R(100) ELSE R(0)
    /\ call.op = "get_services_by_burn_rate" =>
        \A i \in 1..Len(ret) :
            /\ \E r \in store : /\ r.transaction_name = ret[i].service_name
                                /\ r.short_target_slo # R(0)
            /\ ret[i].avg_burn_rate # NULL
            /\ ret[i].avg_burn_rate[1] > 0

(* A returned service went from a zero baseline error rate to a positive
   one and is reported with a change of 100. *)
C4_Witness ==
    /\ IsDetect
    /\ \E i \in 1..Len(Degrading) :
          /\ Degrading[i].error_rate_baseline = R(0)
          /\ Degrading[i].error_rate_recent[1] > 0
          /\ Degrading[i].error_rate_change_percent = R(100)

(* get_services_by_burn_rate lists one service and leaves out another whose
   target is 0 in every row although its error rate is positive. *)
C4_BurnRateCase ==
    /\ call.op = "get_services_by_burn_rate"
    /\ Len(ret) = 1
    /\ \E name \in Services :
          /\ \E r \in store : r.transaction_name = name /\ r.error_rate[1] > 0
          /\ \A r \in store : r.transaction_name = name => r.short_target_slo = R(0)

(* C5: with latest the largest stored timestamp and D the window length, a
   row is read by the recent query iff latest - D <= t <= latest and by
   the baseline query iff latest - 2D <= t < latest - D; no row is read by
   both, and a row at exactly latest - D is read by the recent query only. *)
C5_Windows ==
    IsDetect /\ call.queried /\ store # {} =>
        /\ call.windows.current_time = Latest
        /\ \A r \in store :
              LET key == <<r.transaction_name, r.timestamp>>
              IN  /\ key \in call.recent_rows <=> InRecent(r)
                  /\ key \in call.baseline_rows <=> InBaseline(r)
                  /\ r.timestamp = Latest - call.time_window_days =>
                        key \in call.recent_rows /\ key \notin call.baseline_rows
        /\ call.recent_rows \cap call.baseline_rows = {}

(* A row sits exactly at latest - D, in the recent window, and another
   row is in the baseline window. *)
C5_Witness ==
    /\ IsDetect /\ call.queried
    /\ \E r \in store :
          /\ r.timestamp = Latest - call.time_window_days
          /\ <<r.transaction_name, r.timestamp>> \in call.recent_rows
    /\ call.baseline_rows # {}

(* C6: only services with a row in the recent window and a row in the
   baseline window are compared; a service with rows in one window only is
   never returned. *)
C6_OnlyServicesInBothWindows ==
    IsDetect /\ call.queried =>
        \A i \in 1..Len(Degrading) :
            /\ RecentOf(Degrading[i].service_name) # {}
            /\ BaselineOf(Degrading[i].service_name) # {}

(* One service is returned while the other, with rows in the recent window
   only, is not. *)
C6_Witness ==
    /\ IsDetect /\ call.queried
    /\ Len(Degrading) = 1
    /\ \E name \in Services \ Returned :
          RecentOf(name) # {} /\ BaselineOf(name) = {}

(* C7: the returned list is ordered by non-increasing largest change: each
   entry's largest change is at least that of the entry after it. *)
C7_SortedByMaxChange ==
    IsDetect =>
        \A i \in 1..(Len(Degrading) - 1) :
            RGe(MaxChange(Degrading[i]), MaxChange(Degrading[i + 1]))

(* Two services are returned, the one with the larger change first. *)
C7_Witness ==
    /\ IsDetect
    /\ Len(Degrading) = 2
    /\ RGt(MaxChange(Degrading[1]), MaxChange(Degrading[2]))

(* C8: a degrading-services query with no parameters runs with a window of
   7 days and a threshold of 20 percent, called directly or through
   execute('get_degrading_services', {}). *)
C8_DefaultWindowAndThreshold ==
    IsDetect /\ call.no_parameters /\ call.queried /\ store # {} =>
        /\ call.time_window_days = 7
        /\ call.threshold_percent = 20
        /\ call.windows.window_start = Latest - 7

(* C9: for every service the composite score counts the dimensions with at
   least one HEALTHY row, and health_score is that count / 5 * 100: one of
   0, 20, 40, 60, 80, 100. *)
C9_CompositeHealthScore ==
    call.op = "get_composite_health_score" =>
        /\ {ret[i].service_name : i \in 1..Len(ret)} = {r.transaction_name : r \in store}
        /\ \A i \in 1..Len(ret) :
              LET rows == {r \in store : r.transaction_name = ret[i].service_name}
                  ever == {d \in 1..5 : \E r \in rows : r[HealthDimensions[d]] = "HEALTHY"}
              IN  /\ ret[i].healthy_dimensions = Cardinality(ever)
                  /\ ret[i].health_score[1] * 5 =
                        ret[i].healthy_dimensions * 100 * ret[i].health_score[2]
                  /\ ret[i].health_score \in {R(0), R(20), R(40), R(60), R(80), R(100)}
                  /\ Cardinality(ever) = 3 => ret[i].health_score = R(60)

(* A service with two rows, neither of them healthy in three dimensions,
   has three dimensions healthy in one row or the other and scores 60. *)
C9_Witness ==
    /\ call.op = "get_composite_health_score"
    /\ \E i \in 1..Len(ret) :
          /\ ret[i].healthy_dimensions = 3
          /\ ret[i].health_score = R(60)
          /\ \A r \in store :
                r.transaction_name = ret[i].service_name =>
                    Cardinality({d \in 1..5 : r[HealthDimensions[d]] = "HEALTHY"}) < 3

(* C10: a service is listed by get_budget_exhausted_services iff one of its
   rows has eb_actual_consumed_percent >= 100 or eb_left_count < 0; rows
   at 99.9 percent with 1 left do not list it, a row at 105 percent does. *)
C10_BudgetExhausted ==
    call.op = "get_budget_exhausted_services" =>
        /\ \A name \in Services :
              (\E i \in 1..Len(ret) : ret[i].service_name = name) <=>
                  \E r \in store :
                      /\ r.transaction_name = name
                      /\ \/ r.eb_actual_consumed_percent[1] >=
                                100 * r.eb_actual_consumed_percent[2]
                         \/ r.eb_left_count[1] < 0
        /\ \A i, j \in 1..Len(ret) : ret[i].service_name = ret[j].service_name => i = j

(* One service is listed for a row at exactly 100 percent with 0 left,
   the other, at 99.9 percent with 1 left, is not. *)
C10_Witness ==
    /\ call.op = "get_budget_exhausted_services"
    /\ Len(ret) = 1
    /\ \A r \in store :
          r.transaction_name = ret[1].service_name =>
              r.eb_actual_consumed_percent = R(100) /\ r.eb_left_count = R(0)
    /\ \E r \in store :
          /\ r.transaction_name # ret[1].service_name
          /\ r.eb_actual_consumed_percent = Rat(999, 10)

(* The standard error target of a service: the largest short_target_slo of
   its rows. *)
TargetOf(name) ==
    LET targets == {r.short_target_slo : r \in Group(store, name)}
    IN  CHOOSE t \in targets : \A u \in targets : RGe(t, u)

(* C11: the burn rate of a service is avg(error_rate) / target * 100 when
   its target is not 0, and NULL when it is 0; every row of
   get_services_by_burn_rate carries that value, and a service whose
   target is 0 in all its rows is in no row. *)
C11_BurnRate ==
    call.op = "get_services_by_burn_rate" =>
        /\ \A name \in GroupNames(store) :
              LET rate == BurnRate(Group(store, name))
                  avg == AVG(Group(store, name), "error_rate")
                  target == TargetOf(name)
              IN  IF target[1] = 0 THEN rate = NULL
                  ELSE /\ rate # NULL
                       /\ rate[1] * avg[2] * target[1] =
                              100 * avg[1] * target[2] * rate[2]
        /\ \A i \in 1..Len(ret) :
              /\ ret[i].service_name \in GroupNames(store)
              /\ TargetOf(ret[i].service_name)[1] # 0
              /\ ret[i].avg_burn_rate = BurnRate(Group(store, ret[i].service_name))

(* One service is listed with burn rate 1 / 1 * 100 = 100 while the other,
   with a positive error rate and target 0 in all its rows, is not. *)
C11_Witness ==
    /\ call.op = "get_services_by_burn_rate"
    /\ Len(ret) = 1
    /\ ret[1].avg_burn_rate = R(100)
    /\ \E name \in GroupNames(store) :
          /\ name # ret[1].service_name
          /\ TargetOf(name) = R(0)
          /\ \E r \in store : r.transaction_name = name /\ r.error_rate[1] > 0

(* C12: in the rows of get_composite_health_score a service whose burn
   rate is undefined (target 0 in all its rows) carries a null burn rate,
   never a substituted value such as 0.0. *)
C12_UndefinedBurnRateIsNull ==
    call.op = "get_composite_health_score" =>
        \A i \in 1..Len(ret) :
            TargetOf(ret[i].service_name)[1] = 0 => ret[i].avg_burn_rate = NULL

(* C13: a service is in the result of get_aspirational_slo_gap iff one of
   its rows has, for the error-budget dimension or for the response
   dimension, the standard health HEALTHY and the aspirational health of
   that dimension UNHEALTHY; one dimension is enough. *)
C13_AspirationalGap ==
    call.op = "get_aspirational_slo_gap" =>
        /\ \A name \in Services :
              (\E i \in 1..Len(ret) : ret[i].service_name = name) <=>
                  \E r \in store :
                      /\ r.transaction_name = name
                      /\ \/ /\ r.eb_health = "HEALTHY"
                            /\ r.aspirational_eb_health = "UNHEALTHY"
                         \/ /\ r.response_health = "HEALTHY"
                            /\ r.aspirational_response_health = "UNHEALTHY"
        /\ \A i, j \in 1..Len(ret) : ret[i].service_name = ret[j].service_name => i = j

(* A service whose only gap is in the response dimension is returned, and
   a service with rows but no gap in either dimension is not. *)
C13_Witness ==
    /\ call.op = "get_aspirational_slo_gap"
    /\ Len(ret) = 1
    /\ \A r \in store :
          r.transaction_name = ret[1].service_name =>
              ~(r.eb_health = "HEALTHY" /\ r.aspirational_eb_health = "UNHEALTHY")
    /\ \E r \in store : r.transaction_name # ret[1].service_name

(* C14: get_breach_vs_error_analysis gives each service one issue_type:
   LATENCY_ISSUE iff avg(response_error_rate) > avg(error_rate),
   RELIABILITY_ISSUE iff avg(error_rate) > avg(response_error_rate),
   BALANCED iff neither; with a service name (a non-empty string) the
   result holds that service only, without one every stored service. *)
C14_IssueType ==
    call.op = "get_breach_vs_error_analysis" =>
        LET named == call.service_name \ {""}
            scope == IF named = {} THEN GroupNames(store)
                     ELSE named \cap GroupNames(store)
        IN  /\ {ret[i].service_name : i \in 1..Len(ret)} = scope
            /\ Len(ret) = Cardinality(scope)
            /\ \A i \in 1..Len(ret) :
                  LET G == Group(store, ret[i].service_name)
                      breach == AVG(G, "response_error_rate")
                      error == AVG(G, "error_rate")
                      latency == breach[1] * error[2] > error[1] * breach[2]
                      reliability == error[1] * breach[2] > breach[1] * error[2]
                  IN  /\ ret[i].issue_type = "LATENCY_ISSUE" <=> latency
                      /\ ret[i].issue_type = "RELIABILITY_ISSUE" <=> reliability
                      /\ ret[i].issue_type = "BALANCED" <=> ~latency /\ ~reliability

(* Asked for one service while two are stored, the analysis returns that
   service alone, BALANCED on equal non-zero averages. *)
C14_Witness ==
    /\ call.op = "get_breach_vs_error_analysis"
    /\ call.service_name \in {Given(n) : n \in Services}
    /\ Cardinality(GroupNames(store)) = 2
    /\ Len(ret) = 1
    /\ ret[1].issue_type = "BALANCED"
    /\ ret[1].avg_error_rate[1] > 0

(* The ranking value of a stored service: its average P99 when one of its
   rows has a P99, its average response time otherwise. *)
RankingValue(name) ==
    LET G == Group(store, name)
    IN  IF \E r \in G : r.percentile_99 # NULL
        THEN AVG(G, "percentile_99") ELSE AVG(G, "avg_response_time")

(* C15: get_slowest_services(limit) returns at most limit services, the
   slowest ones, by non-increasing ranking value, where the ranking value
   is the average P99 when that is not null and the average response time
   otherwise; the P99 field of an entry is null exactly when the entry
   was ranked by its average, and the field of the basis used holds the
   ranking value. *)
C15_SlowestServices ==
    call.op = "get_slowest_services" =>
        LET listed == {ret[i].service_name : i \in 1..Len(ret)}
        IN  /\ Len(ret) <= call.limit
            /\ listed \subseteq GroupNames(store)
            /\ Cardinality(listed) = Len(ret)
            /\ \A i \in 1..(Len(ret) - 1) :
                  RGe(RankingValue(ret[i].service_name),
                      RankingValue(ret[i + 1].service_name))
            /\ \A name \in GroupNames(store) \ listed :
                  /\ Len(ret) = call.limit
                  /\ RGe(RankingValue(ret[Len(ret)].service_name), RankingValue(name))
            /\ \A i \in 1..Len(ret) :
                  LET G == Group(store, ret[i].service_name)
                      by_p99 == \E r \in G : r.percentile_99 # NULL
                  IN  /\ ret[i].avg_response_time_p99 # NULL <=> by_p99
                      /\ by_p99 => ret[i].avg_response_time_p99 =
                                       RankingValue(ret[i].service_name)
                      /\ ~by_p99 => ret[i].avg_response_time =
                                        RankingValue(ret[i].service_name)

(* A service ranked by its average response time (no P99) comes before a
   service ranked by its P99, whose average response time is larger. *)
C15_Witness ==
    /\ call.op = "get_slowest_services"
    /\ Len(ret) = 2
    /\ ret[1].avg_response_time_p99 = NULL
    /\ ret[2].avg_response_time_p99 # NULL
    /\ RGt(ret[2].avg_response_time, ret[1].avg_response_time)

(* C16: get_severity_heatmap has one row per service; red_count is the
   number of the five severity dimensions with a row coloured #FD346E,
   green_count the number with a row coloured #07AE86, both between 0 and
   5, and the rows are in non-increasing order of burn rate. *)
C16_SeverityHeatmap ==
    call.op = "get_severity_heatmap" =>
        /\ {ret[i].service_name : i \in 1..Len(ret)} = GroupNames(store)
        /\ Len(ret) = Cardinality(GroupNames(store))
        /\ \A i \in 1..Len(ret) :
              LET rows == {r \in store : r.transaction_name = ret[i].service_name}
                  red == {d \in 1..5 :
                             \E r \in rows : r[SeverityDimensions[d]] = "#FD346E"}
                  green == {d \in 1..5 :
                               \E r \in rows : r[SeverityDimensions[d]] = "#07AE86"}
              IN  /\ ret[i].red_count = Cardinality(red)
                  /\ ret[i].green_count = Cardinality(green)
                  /\ ret[i].red_count \in 0..5
                  /\ ret[i].green_count \in 0..5
        /\ \A i \in 1..(Len(ret) - 1) :
              ret[i].avg_burn_rate[1] * ret[i + 1].avg_burn_rate[2] >=
                  ret[i + 1].avg_burn_rate[1] * ret[i].avg_burn_rate[2]

(* A service red in two dimensions in one row and green in all five over
   its rows counts 2 red and 5 green, listed after a service with a larger
   burn rate that is red in all five. *)
C16_Witness ==
    /\ call.op = "get_severity_heatmap"
    /\ Len(ret) = 2
    /\ RGt(ret[1].avg_burn_rate, ret[2].avg_burn_rate)
    /\ ret[2].red_count = 2
    /\ ret[2].green_count = 5
    /\ ret[1].red_count = 5

(* C17: a service is returned by get_timeliness_issues iff the
   timeliness_health of its most recent row is UNHEALTHY; a service that
   was UNHEALTHY in an earlier hour and is HEALTHY in its latest hour is
   not returned. *)
C17_CurrentlyUnhealthy ==
    call.op = "get_timeliness_issues" =>
        \A name \in GroupNames(store) :
            LET rows == Group(store, name)
                latest == CHOOSE r \in rows : \A q \in rows : q.timestamp <= r.timestamp
            IN  (\E i \in 1..Len(ret) : ret[i].service_name = name) <=>
                    latest.timeliness_health = "UNHEALTHY"

CompareMetrics ==
    {"avg_error_rate", "avg_response_time", "avg_response_time_p95",
     "avg_response_time_p99"}

(* C18: a metric whose recent or baseline aggregate is null never by itself
   flags a service, for any threshold: every returned service has a metric
   with both aggregates present whose percent change exceeds the
   threshold. *)
C18_NullNeverFlags ==
    IsDetect /\ call.queried =>
        \A name \in Returned :
            LET recent == Aggregate(RecentOf(name))
                baseline == Aggregate(BaselineOf(name))
            IN  \E m \in CompareMetrics :
                    /\ recent[m] # NULL
                    /\ baseline[m] # NULL
                    /\ RGt(calculate_percent_change(baseline[m], recent[m]),
                           R(call.threshold_percent))

(* C19: on an empty store detect_degrading_services returns the empty list
   and get_volume_trends a result with an error field, and neither builds
   its windowed queries. *)
C19_EmptyStoreNoQueries ==
    store = {} =>
        /\ IsDetect => Degrading = <<>> /\ ~call.queried
        /\ call.op = "get_volume_trends" =>
              "error" \in DOMAIN ret /\ ~call.queried

(* The rows of the named service in [latest - D, latest]. *)
InVolumeWindow ==
    {r \in store : /\ r.transaction_name = call.service_name
                   /\ Latest - call.time_window_days <= r.timestamp
                   /\ r.timestamp <= Latest}

(* C20: on a non-empty store get_volume_trends for a service with no row in
   the window gives a result with an error field and no time series; with
   rows in the window it gives no error field and a time series of exactly
   those rows, one entry each, timestamps ascending. *)
C20_VolumeTrends ==
    call.op = "get_volume_trends" /\ store # {} =>
        IF InVolumeWindow = {}
        THEN "error" \in DOMAIN ret /\ "time_series" \notin DOMAIN ret
        ELSE /\ "error" \notin DOMAIN ret
             /\ Len(ret.time_series) = Cardinality(InVolumeWindow)
             /\ \A r \in InVolumeWindow :
                   \E i \in 1..Len(ret.time_series) :
                       /\ ret.time_series[i].timestamp = ToString(r.timestamp)
                       /\ ret.time_series[i].error_rate = r.error_rate
                       /\ ret.time_series[i].response_time = r.avg_response_time
             /\ \A i, j \in 1..Len(ret.time_series) :
                   i < j =>
                       \E r, q \in InVolumeWindow :
                           /\ ret.time_series[i].timestamp = ToString(r.timestamp)
                           /\ ret.time_series[j].timestamp = ToString(q.timestamp)
                           /\ r.timestamp < q.timestamp

(* A named service has a row older than the window and two rows inside
   it: the time series lists the two, the older first. *)
C20_Witness ==
    /\ call.op = "get_volume_trends"
    /\ \E r \in store : r.transaction_name = call.service_name /\ r \notin InVolumeWindow
    /\ Cardinality(InVolumeWindow) = 2
    /\ Len(ret.time_series) = 2
    /\ ret.time_series[1].timestamp = ToString(Latest - 1)
    /\ ret.time_series[2].timestamp = ToString(Latest)

(* A named service has rows, all older than the window, and the call
   returns the error with no time series. *)
C20_NoRowsInWindow ==
    /\ call.op = "get_volume_trends"
    /\ InVolumeWindow = {}
    /\ \E r \in store : r.transaction_name = call.service_name
    /\ "error" \in DOMAIN ret

(* C21: execute gives the Unknown function error for no name of TOOLS, and
   gives it exactly for the names that are not in TOOLS; every other name
   resolves to one handler. *)
C21_AdvertisedToolsResolve ==
    call.op = "execute" =>
        /\ "error" \in DOMAIN ret <=> call.function_name \notin TOOLS
        /\ "error" \notin DOMAIN ret => ret.handler = function_map[call.function_name]

(* No method of the client is in progress. *)
ClientFree == call = NoCall \/ call.pc = "done"

IsChat == call.op \in {"chat", "chat_stream"}

(* C22: once a chat or chat_stream call is over, every tool_use block of an
   assistant message is answered by a tool_result with its id in the
   message that follows, a user message; also when the iteration limit was
   reached and when no tool_executor was given. *)
C22_ToolUsesAnswered ==
    ClientFree =>
        \A i \in 1..Len(store) :
            LET tool_uses == ToolUsesIn(store[i].content)
            IN  store[i].role = "assistant" /\ tool_uses # <<>> =>
                    /\ i < Len(store)
                    /\ store[i + 1].role = "user"
                    /\ \A k \in 1..Len(tool_uses) :
                          \E j \in 1..Len(store[i + 1].content) :
                              /\ store[i + 1].content[j].type = "tool_result"
                              /\ store[i + 1].content[j].tool_use_id = tool_uses[k].id

(* C23: for one user message chat and chat_stream run at most
   max_tool_iterations rounds of tool calls. *)
C23_AtMostMaxRounds ==
    IsChat => call.rounds <= call.max_tool_iterations

(* C24: a round of tool calls appends one user message, right after the
   assistant message with the requests, holding one tool_result per
   tool_use, in request order and with its id; the result of a tool that
   raised is an error payload and the tools after it have the results of
   their handlers. *)
C24_OneResultPerToolUse ==
    IsChat /\ call.round.at > 0 =>
        LET tool_uses == call.round.tool_uses
            at == call.round.at
        IN  /\ at <= Len(store)
            /\ store[at].role = "user"
            /\ store[at - 1].role = "assistant"
            /\ ToolUsesIn(store[at - 1].content) = tool_uses
            /\ Len(store[at].content) = Len(tool_uses)
            /\ \A i \in 1..Len(tool_uses) :
                  LET result == store[at].content[i]
                  IN  /\ result.type = "tool_result"
                      /\ result.tool_use_id = tool_uses[i].id
                      /\ IF tool_uses[i].name \in RequiredParameter
                         THEN "error" \in DOMAIN result.content.json
                         ELSE result.content.json =
                                  [handler |-> function_map[tool_uses[i].name]]

(* chat ran a round of two tools: the first raised, and the second has its
   handler's result. *)
C24_Witness ==
    /\ call.op = "chat"
    /\ call.round.at > 0
    /\ Len(call.round.tool_uses) = 2
    /\ Len(store[call.round.at].content) = 2
    /\ "error" \in DOMAIN store[call.round.at].content[1].content.json
    /\ "handler" \in DOMAIN store[call.round.at].content[2].content.json

(* C25: with no call in progress conversation_history starts with a user
   message and alternates user and assistant, also after a model call
   raised or gave empty content; clear_history leaves it empty. *)
C25_HistoryAlternates ==
    ClientFree =>
        /\ store # <<>> => store[1].role = "user"
        /\ \A i \in 1..(Len(store) - 1) : store[i].role # store[i + 1].role
        /\ call.op = "clear_history" => store = <<>>

(* The mean of a column over the rows of a service that have a value. *)
MeanOf(name, col) ==
    LET rows == {r \in store : r.transaction_name = name /\ r[col] # NULL}
    IN  RDiv(SumCol(rows, col), R(Cardinality(rows)))

(* The largest value of a column over the rows of a service. *)
LargestOf(name, col) ==
    LET rows == {r \in store : r.transaction_name = name}
    IN  (CHOOSE r \in rows : \A q \in rows : RGe(r[col], q[col]))[col]

(* Some row of the service has an error rate and some row a response
   time, and its targets are not negative. *)
WellDefined(name) ==
    /\ \E r \in store : r.transaction_name = name /\ r.error_rate # NULL
    /\ \E r \in store : r.transaction_name = name /\ r.avg_response_time # NULL
    /\ RGe(LargestOf(name, "short_target_slo"), R(0))
    /\ RGe(LargestOf(name, "response_slo"), R(0))

WithinTargets(name) ==
    /\ RLe(MeanOf(name, "error_rate"), LargestOf(name, "short_target_slo"))
    /\ RLe(MeanOf(name, "avg_response_time"), LargestOf(name, "response_slo"))

(* C26: a service with defined averages and non-negative targets is counted
   healthy when both averages are within target and degraded when one is
   above, never violated; when every service is such, violated_services is
   0 and the three counts add up to the number of services. *)
C26_HealthOverview ==
    call.op = "get_service_health_overview" =>
        LET names == {r.transaction_name : r \in store}
            counted(class) == Cardinality({n \in names : call.classes[n] = class})
        IN  /\ ret.healthy_services = counted("healthy")
            /\ ret.degraded_services = counted("degraded")
            /\ ret.violated_services = counted("violated")
            /\ \A n \in names :
                  WellDefined(n) =>
                      call.classes[n] = IF WithinTargets(n) THEN "healthy" ELSE "degraded"
            /\ (\A n \in names : WellDefined(n)) =>
                  /\ ret.violated_services = 0
                  /\ ret.healthy_services + ret.degraded_services
                         + ret.violated_services = Cardinality(names)
                  /\ ret.total_services = Cardinality(names)

(* One service is within both targets and the other is above its error
   target: one healthy, one degraded, none violated. *)
C26_Witness ==
    /\ call.op = "get_service_health_overview"
    /\ \A n \in Services : \E r \in store : r.transaction_name = n
    /\ \A n \in Services : WellDefined(n)
    /\ ret.healthy_services = 1
    /\ ret.degraded_services = 1
    /\ ret.violated_services = 0

(* Outside the claim's data a service is counted violated: one with no
   error rate, or with a negative target. *)
C26_ViolatedOutside ==
    /\ call.op = "get_service_health_overview"
    /\ ret.violated_services = 2

(* C27: get_access_token returns a token that is more than 30 seconds from
   its expiry, and of two consecutive calls the second, made while the
   token the first returned is more than 30 seconds from its expiry,
   returns that same token without a fetch, however the refresh thread is
   interleaved. *)
C27_CachedTokenReturned ==
    call.op = "keycloak" =>
        /\ \A i \in 1..Len(ret) : ret[i].at < ret[i].expiry - EXPIRY_MARGIN
        /\ Len(ret) = 2 /\ ret[2].at < ret[1].expiry - EXPIRY_MARGIN =>
              ret[2].token = ret[1].token /\ ~ret[2].fetched

(* The page the server holds at page_id, and whether the loop stops at it. *)
PageAt(page_id) == fetch_page(store, page_id, call.page_size)

StopsAt(page_id) ==
    \/ PageAt(page_id) = <<>>
    \/ IsNoDataFound(PageAt(page_id))
    \/ Len(PageAt(page_id)) < call.page_size

(* The records of pages 0..page_id, left to right, a noDataFound page left
   out. *)
RECURSIVE PagesUpTo(_)
PagesUpTo(page_id) ==
    IF page_id < 0 THEN <<>>
    ELSE PagesUpTo(page_id - 1)
         \o (IF IsNoDataFound(PageAt(page_id)) THEN <<>> ELSE PageAt(page_id))

(* C28: when no page request fails, query_service_health requests pages
   0, 1, 2, ... in order, stops at the first page that is empty, a single
   noDataFound record or shorter than page_size, and returns the records of
   the pages it requested, in page order and each once: every record the
   server holds. *)
C28_AllPagesInOrder ==
    call.op = "query_service_health" =>
        /\ \A i \in 1..Len(call.requested) : call.requested[i] = i - 1
        /\ call.pc = "done" /\ ~call.failed =>
              LET last == Len(call.requested) - 1
              IN  /\ last >= 0
                  /\ StopsAt(last)
                  /\ \A p \in 0..(last - 1) : ~StopsAt(p)
                  /\ ret.returned = PagesUpTo(last)
                  /\ ret.returned = [i \in 1..store.records |-> ServiceRecord(i)]

(* Four records in pages of two: pages 0, 1 and 2 are requested, the third
   is past the data, and the four records are returned. *)
C28_Witness ==
    /\ call.op = "query_service_health"
    /\ call.pc = "done" /\ ~call.failed
    /\ call.page_size = 2
    /\ call.requested = <<0, 1, 2>>
    /\ Len(ret.returned) = 4

(* C29: query_service_health raises whenever the request for a page fails,
   whichever page it is and however many records were collected before. *)
C29_FailedPageRaises ==
    call.op = "query_service_health" /\ call.pc = "done" /\ call.failed =>
        "raised" \in DOMAIN ret

(* How many times a row was handed to insert_batch, and how many times it
   is in the table. *)
RECURSIVE TimesHanded(_, _)
TimesHanded(batches, row) ==
    IF batches = <<>> THEN 0
    ELSE Cardinality({i \in 1..Len(batches[1].rows) : batches[1].rows[i] = row})
         + TimesHanded(Tail(batches), row)

TimesInTable(row) == Cardinality({i \in 1..Len(store.table) : store.table[i] = row})

(* The rows of the batches whose insert failed. *)
RECURSIVE FailedRows(_)
FailedRows(batches) ==
    IF batches = <<>> THEN 0
    ELSE (IF batches[1].ok THEN 0 ELSE Len(batches[1].rows)) + FailedRows(Tail(batches))

PipelineEnded == call.op = "consume_and_load" /\ call.pc = "done"

(* C30: when the pipeline has ended every flattened row was handed to
   insert_batch exactly once, no row is in the table twice, and
   total_rows_inserted is the number of flattened rows minus the rows of
   the batches whose insert failed. *)
C30_EveryRowInsertedOnce ==
    PipelineEnded =>
        /\ \A row \in 1..call.total_series_items :
              /\ TimesHanded(store.handed, row) = 1
              /\ TimesInTable(row) <= 1
        /\ ret.total_rows_inserted =
              call.total_series_items - FailedRows(store.handed)

(* The same when Ctrl+C arrives while the loop waits for a message. *)
C30_StoppedBetweenMessages ==
    PipelineEnded /\ call.interrupted_at = "poll" =>
        /\ \A row \in 1..call.total_series_items :
              /\ TimesHanded(store.handed, row) = 1
              /\ TimesInTable(row) <= 1
        /\ ret.total_rows_inserted =
              call.total_series_items - FailedRows(store.handed)

====
